---- MODULE Spec2Model ----
(***************************************************************************)
(* Model of the media sample objects of dom/media MediaData.cpp            *)
(* (src/unnamed/part_005): AudioData with its trim window, start-time      *)
(* adjustment, planar conversion and destructive MoveableData; VideoData   *)
(* with its timestamp and duration updates, the validation of plane        *)
(* buffers and picture rectangles in CreateAndCopyData (SpecCreate), and   *)
(* QuantizableBuffer with its conversion to 8 bits per channel through a   *)
(* buffer recycle bin (SpecQuantize).                                      *)
(*                                                                         *)
(* Times are media::TimeUnit values (dom/media/TimeUnits.h), modelled as   *)
(* a checked integer number of ticks in one common time base of TickBase   *)
(* ticks per second, so that the arithmetic is exact rational arithmetic   *)
(* on the rates the model uses (every rate divides TickBase).  A checked   *)
(* value keeps its wrapped raw value and a validity flag, as CheckedInt64  *)
(* does.                                                                   *)
(***************************************************************************)
EXTENDS Integers, Sequences, FiniteSets, TLC

\* Bounds of the model.
MaxLen == 4        \* longest sample buffer handed to the constructor
MaxChannels == 2   \* largest channel count
MaxCalls == 4      \* calls made on one frame, the constructor included

\* The sample rates of the model, in frames per second, and the common time
\* base: the least number of ticks per second that holds every frame period.
Rates == {1, 2}
TickBase ==
  CHOOSE n \in 1..4 :
    /\ \A r \in Rates : n % r = 0
    /\ \A m \in 1..(n - 1) : \E r \in Rates : m % r # 0
\* Checked tick values live in -TickLimit .. TickLimit-1; the longest frame
\* fits the range with room to be shifted.
TickLimit == (3 * MaxLen * TickBase) \div 2

VARIABLES
  pc,            \* "none" (not constructed), "live" (an AudioData), "video"
                 \* (a VideoData), "aborted" (assertion hit)
  mChannels,     \* AudioData::mChannels
  mRate,         \* AudioData::mRate
  mOriginalTime, \* AudioData::mOriginalTime
  mTime,         \* MediaData::mTime
  mDuration,     \* MediaData::mDuration
  mAudioData,    \* AudioData::mAudioData, the interleaved AlignedAudioBuffer
  mDataOffset,   \* AudioData::mDataOffset, in samples
  mFrames,       \* AudioData::mFrames
  mTrimWindow,   \* AudioData::mTrimWindow, Maybe<TimeInterval>
  mAudioBuffer,  \* AudioData::mAudioBuffer, the cached planar SharedBuffer
  call,          \* the last call made on the frame: its arguments and result
  calls,         \* the number of calls made so far
  vcall,         \* the call of a static function of VideoData: its arguments,
                 \* its result and what it did
  qpc,              \* the QuantizableBuffer: "none", "live", "destroyed" or
                    \* "aborted" (assertion hit, or a crash)
  mColorDepth,      \* YCbCrBuffer::mColorDepth, in bits
  mChromaSubsampling, \* YCbCrBuffer::mChromaSubsampling
  mPlanes,          \* YCbCrBuffer::mPlanes: mData, mStride, mWidth, mHeight
  mRecycleBin,      \* QuantizableBuffer::mRecycleBin, 0 when null
  m8bpcPlanes,      \* QuantizableBuffer::m8bpcPlanes, 0 when null
  mAllocatedLength, \* QuantizableBuffer::mAllocatedLength
  buffers,          \* every buffer a recycle bin handed out, and its fate
  qcall,            \* the last call of To8BitPerChannel: its argument and result
  samples,          \* the MediaRawData objects alive, the demuxer's sample first
  heap,             \* the byte storage the samples' AlignedByteBuffers point to
  rcall,            \* the last call on a MediaRawData: its arguments and result
  tablesData,       \* PROT_ListManager.tablesData: the update URL of each table,
                    \* "" for a table that is not registered
  needsUpdate,      \* #needsUpdate: per update URL and table "true", "false",
                    \* or "none" when the map has no entry for the table
  requestBackoffs,  \* the URLs that have a RequestBackoffV4 (and a map in
                    \* #needsUpdate)
  updateCheckers,   \* #updateCheckers: whether the URL's entry holds a timer
  startingUpdate,   \* startingUpdate_
  orphanTimers,     \* per URL the timers still armed that no entry refers to
  idleObservers,    \* per URL the observers waiting for user-interaction-active
  pendingGetTables, \* per URL the getTables callbacks not yet run
  pendingDownloads, \* per URL the requests handed to the stream updater
  lcall             \* the last call on the list manager, and the delay it
                    \* passed to setUpdateCheckTimer

frame == <<mChannels, mRate, mOriginalTime, mTime, mDuration, mAudioData,
           mDataOffset, mFrames, mTrimWindow, mAudioBuffer>>
\* The state of the frame that the calls of Spec act on.
frameVars == <<pc, frame, call, calls>>
\* The state of the QuantizableBuffer and of the recycle bins.
quantVars == <<qpc, mColorDepth, mChromaSubsampling, mPlanes, mRecycleBin,
               m8bpcPlanes, mAllocatedLength, buffers, qcall>>
\* The MediaRawData objects and their storage.
rawVars == <<samples, heap, rcall>>
\* The list manager, its timers and its requests in flight.
listVars == <<tablesData, needsUpdate, requestBackoffs, updateCheckers,
              startingUpdate, orphanTimers, idleObservers, pendingGetTables,
              pendingDownloads, lcall>>
vars == <<pc, mChannels, mRate, mOriginalTime, mTime, mDuration, mAudioData,
          mDataOffset, mFrames, mTrimWindow, mAudioBuffer, call, calls, vcall,
          qpc, mColorDepth, mChromaSubsampling, mPlanes, mRecycleBin,
          m8bpcPlanes, mAllocatedLength, buffers, qcall, samples, heap, rcall,
          tablesData, needsUpdate, requestBackoffs, updateCheckers,
          startingUpdate, orphanTimers, idleObservers, pendingGetTables,
          pendingDownloads, lcall>>

---------------------------------------------------------------------------
(* media::TimeUnit and CheckedInt64, scaled to the tick range.             *)

InRange(x) == (0 - TickLimit) <= x /\ x < TickLimit
Wrap(x) == ((x + TickLimit) % (2 * TickLimit)) - TickLimit

\* TimeUnit(aTicks): a checked tick count.
TimeUnit(x) == [t |-> Wrap(x), ok |-> InRange(x)]
\* TimeUnit::operator- and operator+ on checked values.
TUSub(a, b) == [t |-> Wrap(a.t - b.t), ok |-> a.ok /\ b.ok /\ InRange(a.t - b.t)]
TUAdd(a, b) == [t |-> Wrap(a.t + b.t), ok |-> a.ok /\ b.ok /\ InRange(a.t + b.t)]
\* TimeUnit(aFrames, aRate): aFrames ticks of base aRate, exact in the common base.
FramesToTime(frames, rate) == TimeUnit((frames * TickBase) \div rate)
\* TimeUnit::ToTicksAtRate: ticks * rate / base in integer (truncating) division.
ToTicksAtRate(a, rate) ==
  IF a.t >= 0 THEN (a.t * rate) \div TickBase
  ELSE 0 - (((0 - a.t) * rate) \div TickBase)
\* The comparisons read the raw tick values.
TULess(a, b) == a.t < b.t
TUGreater(a, b) == a.t > b.t
TUEqual(a, b) == a.t = b.t
IsZero(a) == a.t = 0
IsValid(a) == a.ok
IsNegative(a) == a.t < 0

\* Maybe<TimeInterval>
Nothing == [some |-> FALSE, mStart |-> TimeUnit(0), mEnd |-> TimeUnit(0)]
Some(i) == [some |-> TRUE, mStart |-> i.mStart, mEnd |-> i.mEnd]
Interval(s, e) == [mStart |-> TimeUnit(s), mEnd |-> TimeUnit(e)]
\* Interval::operator-= shifts both ends.
ShiftWindow(w, aStartTime) ==
  IF w.some
    THEN [some |-> TRUE, mStart |-> TUSub(w.mStart, aStartTime),
          mEnd |-> TUSub(w.mEnd, aStartTime)]
    ELSE w

\* AlignedBuffer: a null buffer holds no storage; a moved-from buffer is null.
NullBuffer == [null |-> TRUE, data |-> <<>>]
Buffer(d) == [null |-> FALSE, data |-> d]
Min(a, b) == IF a < b THEN a ELSE b
\* AlignedBuffer::PopFront(aSize): drops the first aSize elements.
PopFront(d, n) == SubSeq(d, Min(n, Len(d)) + 1, Len(d))
\* AlignedBuffer::SetLength(aLength): truncates, or grows with zeroed elements.
SetLength(d, n) == [i \in 1..n |-> IF i <= Len(d) THEN d[i] ELSE 0]

\* The samples a decoder delivers: a ramp, so that every position is told apart.
Ramp(len) == [i \in 1..len |-> i]

\* The times a caller passes as start times.
StartTimes == {0, 1}
AdjustTimes == {TickLimit - 5, 5 - TickLimit}


---------------------------------------------------------------------------
(* MediaData / AudioData accessors.                                        *)

\* MediaData::GetEndTime
GetEndTime == TUAdd(mTime, mDuration)

\* AudioData::Data: the span [GetAdjustedData(), mFrames * mChannels).
Data ==
  IF mAudioData.null THEN SubSeq(<<>>, 1, mFrames * mChannels)
  ELSE SubSeq(mAudioData.data, mDataOffset + 1,
              mDataOffset + mFrames * mChannels)

\* The record of a call: the operation, its arguments, what it returned (a
\* returned buffer in buf), and whether it repeats the call made just before
\* it (same operation, same arguments).
NoCall ==
  [op |-> "none", a |-> 0, b |-> 0, ret |-> FALSE, buf |-> NullBuffer,
   again |-> FALSE]
Returned(op, a, b, ret, buf) ==
  [op |-> op, a |-> a, b |-> b, ret |-> ret, buf |-> buf,
   again |-> (call.op = op /\ call.a = a /\ call.b = b)]
Call(op, a, b, ret) == Returned(op, a, b, ret, NullBuffer)

\* A plane of a YCbCrBuffer, a picture rectangle, a MediaResult.
Plane(w, h, stride) == [mWidth |-> w, mHeight |-> h, mStride |-> stride]
IntRect(x, y, w, h) == [x |-> x, y |-> y, width |-> w, height |-> h]
MediaResult(code, message) == [code |-> code, message |-> message]
\* No static function has been called.
NoVCall ==
  [op |-> "none", planes |-> <<>>, picture |-> IntRect(0, 0, 0, 0),
   container |-> FALSE, valid |-> FALSE, ret |-> "none",
   result |-> MediaResult("NS_OK", ""), image |-> "none",
   allocated |-> FALSE, copied |-> FALSE, rect |-> IntRect(0, 0, 0, 0)]

\* To8BitPerChannel has not been called.
NoQCall ==
  [op |-> "none", bin |-> 0, depth |-> 0, result |-> MediaResult("NS_OK", ""),
   acquired |-> 0]

\* The tables and update URLs of the list manager's callers.
Tables == {"t1", "t2"}
Urls == {"u1", "u2"}
\* No call has been made on the list manager.
NoLCall == [op |-> "none", url |-> "", wait |-> <<>>, delay |-> 0]

\* No call has been made on a MediaRawData.
NoRCall == [op |-> "none", target |-> 0, ret |-> 0, copied |-> 0]

Init ==
  /\ pc = "none"
  /\ mChannels = 0
  /\ mRate = 0
  /\ mOriginalTime = TimeUnit(0)
  /\ mTime = TimeUnit(0)
  /\ mDuration = TimeUnit(0)
  /\ mAudioData = NullBuffer
  /\ mDataOffset = 0
  /\ mFrames = 0
  /\ mTrimWindow = Nothing
  /\ mAudioBuffer = NullBuffer
  /\ call = NoCall
  /\ calls = 0
  /\ vcall = NoVCall
  /\ qpc = "none"
  /\ mColorDepth = 8
  /\ mChromaSubsampling = "FULL"
  /\ mPlanes = <<>>
  /\ mRecycleBin = 0
  /\ m8bpcPlanes = 0
  /\ mAllocatedLength = 0
  /\ buffers = <<>>
  /\ qcall = NoQCall
  /\ samples = <<>>
  /\ heap = <<>>
  /\ rcall = NoRCall
  /\ tablesData = [t \in Tables |-> ""]
  /\ needsUpdate = [u \in Urls |-> [t \in Tables |-> "none"]]
  /\ requestBackoffs = {}
  /\ updateCheckers = [u \in Urls |-> FALSE]
  /\ startingUpdate = FALSE
  /\ orphanTimers = [u \in Urls |-> 0]
  /\ idleObservers = [u \in Urls |-> 0]
  /\ pendingGetTables = [u \in Urls |-> 0]
  /\ pendingDownloads = [u \in Urls |-> 0]
  /\ lcall = NoLCall

---------------------------------------------------------------------------
\* Mutant of Construct: the assertions replaced by an early return.
Construct_EarlyReturn(aTime, aLen, aChannels, aRate) ==
  /\ pc = "none"
  /\ IF aChannels = 0 \/ aRate = 0
       THEN /\ call' = Call("Construct", aChannels, aRate, FALSE)
            /\ UNCHANGED <<pc, frame>>
       ELSE /\ pc' = "live"
            /\ mChannels' = aChannels
            /\ mRate' = aRate
            /\ mOriginalTime' = TimeUnit(aTime)
            /\ mTime' = TimeUnit(aTime)
            /\ mAudioData' = Buffer(Ramp(aLen))
            /\ mFrames' = aLen \div aChannels
            /\ mDuration' = FramesToTime(aLen \div aChannels, aRate)
            /\ mDataOffset' = 0
            /\ mTrimWindow' = Nothing
            /\ mAudioBuffer' = NullBuffer
            /\ call' = Call("Construct", aChannels, aRate, TRUE)

(* AudioData::AudioData.  The release assertions end the process when the  *)
(* channel count or the rate is 0 (with 0 channels the division in the     *)
(* member initialiser is undefined, and whatever it yields the assertion   *)
(* then fires).                                                            *)
Construct(aTime, aLen, aChannels, aRate) ==
  /\ pc = "none"
  /\ IF aChannels = 0 \/ aRate = 0
       THEN /\ pc' = "aborted"
            /\ call' = Call("Construct", aChannels, aRate, FALSE)
            /\ UNCHANGED frame
       ELSE /\ pc' = "live"
            /\ mChannels' = aChannels
            /\ mRate' = aRate
            /\ mOriginalTime' = TimeUnit(aTime)
            /\ mTime' = TimeUnit(aTime)
            /\ mAudioData' = Buffer(Ramp(aLen))
            /\ mFrames' = aLen \div aChannels
            /\ mDuration' = FramesToTime(aLen \div aChannels, aRate)
            /\ mDataOffset' = 0
            /\ mTrimWindow' = Nothing
            /\ mAudioBuffer' = NullBuffer
            /\ call' = Call("Construct", aChannels, aRate, TRUE)

(* AudioData::SetOriginalStartTime.  The debug-only assertion ends a debug *)
(* build when mTime differs from mOriginalTime; other builds go on.        *)
SetOriginalStartTime(aStartTime) ==
  /\ pc = "live"
  /\ call' = Call("SetOriginalStartTime", aStartTime.t, 0, TRUE)
  /\ \E debug \in (IF TUEqual(mTime, mOriginalTime) THEN {FALSE} ELSE BOOLEAN) :
       IF debug
         THEN /\ pc' = "aborted"
              /\ UNCHANGED frame
         ELSE /\ mTime' = aStartTime
              /\ mOriginalTime' = aStartTime
              /\ UNCHANGED <<pc, mChannels, mRate, mDuration, mAudioData,
                             mDataOffset, mFrames, mTrimWindow, mAudioBuffer>>

\* Mutants of AdjustForStartTime: the result reads mTime alone; the trim
\* window is not shifted.
AdjustForStartTime_TimeOnly(aStartTime) ==
  /\ pc = "live"
  /\ mOriginalTime' = TUSub(mOriginalTime, aStartTime)
  /\ mTime' = TUSub(mTime, aStartTime)
  /\ mTrimWindow' = ShiftWindow(mTrimWindow, aStartTime)
  /\ call' = Call("AdjustForStartTime", aStartTime.t, 0, IsValid(mTime'))
  /\ UNCHANGED <<pc, mChannels, mRate, mDuration, mAudioData, mDataOffset,
                 mFrames, mAudioBuffer>>
AdjustForStartTime_WindowNotShifted(aStartTime) ==
  /\ pc = "live"
  /\ mOriginalTime' = TUSub(mOriginalTime, aStartTime)
  /\ mTime' = TUSub(mTime, aStartTime)
  /\ call' = Call("AdjustForStartTime", aStartTime.t, 0,
                  IsValid(mTime') /\ IsValid(mOriginalTime'))
  /\ UNCHANGED <<pc, mChannels, mRate, mDuration, mAudioData, mDataOffset,
                 mFrames, mAudioBuffer, mTrimWindow>>

(* AudioData::AdjustForStartTime *)
AdjustForStartTime(aStartTime) ==
  /\ pc = "live"
  /\ mOriginalTime' = TUSub(mOriginalTime, aStartTime)
  /\ mTime' = TUSub(mTime, aStartTime)
  /\ mTrimWindow' = ShiftWindow(mTrimWindow, aStartTime)
  /\ call' = Call("AdjustForStartTime", aStartTime.t, 0,
                  IsValid(mTime') /\ IsValid(mOriginalTime'))
  /\ UNCHANGED <<pc, mChannels, mRate, mDuration, mAudioData, mDataOffset,
                 mFrames, mAudioBuffer>>

\* Mutants of TrimOutOfRange: the end of the window is not checked; the end
\* of the window is rejected when it equals the end time.
TrimOutOfRange_StartOnly(aTrim) == TULess(aTrim.mStart, mOriginalTime)
TrimOutOfRange_EndInclusive(aTrim) ==
  TULess(aTrim.mStart, mOriginalTime) \/ ~TULess(aTrim.mEnd, GetEndTime)

(* AudioData::SetTrimWindow, lines 124-126: the window must start at or    *)
(* after mOriginalTime and end at or before GetEndTime().                  *)
TrimOutOfRange(aTrim) ==
  TULess(aTrim.mStart, mOriginalTime) \/ TUGreater(aTrim.mEnd, GetEndTime)

(* AudioData::SetTrimWindow, lines 134-137: the early return that leaves   *)
(* an untrimmed frame alone when the window is its whole range.            *)
NothingToChange(trimBefore, trimAfter) ==
  ~mTrimWindow.some /\ IsZero(trimBefore) /\ TUEqual(trimAfter, mDuration)

\* Mutants of ApplyTrim: the data offset is left in frames; the frame count
\* is taken from trimAfter alone; the duration is not recomputed.
ApplyTrim_OffsetInFrames(aTrim, trimBefore, trimAfter) ==
  LET frameOffset == ToTicksAtRate(trimBefore, mRate)
      frames == ToTicksAtRate(TUSub(trimAfter, trimBefore), mRate)
  IN /\ mTrimWindow' = Some(aTrim)
     /\ mDataOffset' = frameOffset
     /\ mFrames' = frames
     /\ mTime' = TUAdd(mOriginalTime, trimBefore)
     /\ mDuration' = FramesToTime(frames, mRate)
     /\ call' = Call("SetTrimWindow", aTrim.mStart.t, aTrim.mEnd.t, TRUE)
     /\ UNCHANGED <<pc, mChannels, mRate, mOriginalTime, mAudioData,
                    mAudioBuffer>>
ApplyTrim_CountFromStart(aTrim, trimBefore, trimAfter) ==
  LET frameOffset == ToTicksAtRate(trimBefore, mRate)
      frames == ToTicksAtRate(trimAfter, mRate)
  IN /\ mTrimWindow' = Some(aTrim)
     /\ mDataOffset' = frameOffset * mChannels
     /\ mFrames' = frames
     /\ mTime' = TUAdd(mOriginalTime, trimBefore)
     /\ mDuration' = FramesToTime(frames, mRate)
     /\ call' = Call("SetTrimWindow", aTrim.mStart.t, aTrim.mEnd.t, TRUE)
     /\ UNCHANGED <<pc, mChannels, mRate, mOriginalTime, mAudioData,
                    mAudioBuffer>>
ApplyTrim_StaleDuration(aTrim, trimBefore, trimAfter) ==
  LET frameOffset == ToTicksAtRate(trimBefore, mRate)
      frames == ToTicksAtRate(TUSub(trimAfter, trimBefore), mRate)
  IN /\ mTrimWindow' = Some(aTrim)
     /\ mDataOffset' = frameOffset * mChannels
     /\ mFrames' = frames
     /\ mTime' = TUAdd(mOriginalTime, trimBefore)
     /\ call' = Call("SetTrimWindow", aTrim.mStart.t, aTrim.mEnd.t, TRUE)
     /\ UNCHANGED <<pc, mChannels, mRate, mOriginalTime, mAudioData,
                    mAudioBuffer, mDuration>>

(* AudioData::SetTrimWindow, lines 139-155: the new bookkeeping.  When   *)
(* the frame count after the trim exceeds the buffer, the release          *)
(* assertion ends the process if trimBefore.IsBase(mRate); isBase is that  *)
(* answer, the time base of the caller's interval, which the common time   *)
(* base does not keep.                                                     *)
ApplyTrim(aTrim, trimBefore, trimAfter) ==
  LET frameOffset == ToTicksAtRate(trimBefore, mRate)
      frameCountAfterTrim == ToTicksAtRate(TUSub(trimAfter, trimBefore), mRate)
      tooMany == frameCountAfterTrim > Len(mAudioData.data) \div mChannels
      frames == IF tooMany THEN 0 ELSE frameCountAfterTrim
  IN /\ mTrimWindow' = Some(aTrim)
     /\ mDataOffset' = frameOffset * mChannels
     /\ \E isBase \in (IF tooMany THEN BOOLEAN ELSE {FALSE}) :
          IF isBase
            THEN /\ pc' = "aborted"
                 /\ call' = Call("SetTrimWindow", aTrim.mStart.t, aTrim.mEnd.t, FALSE)
                 /\ UNCHANGED <<mFrames, mTime, mDuration>>
            ELSE /\ pc' = pc
                 /\ mFrames' = frames
                 /\ mTime' = TUAdd(mOriginalTime, trimBefore)
                 /\ mDuration' = FramesToTime(frames, mRate)
                 /\ call' = Call("SetTrimWindow", aTrim.mStart.t, aTrim.mEnd.t, TRUE)
     /\ UNCHANGED <<mChannels, mRate, mOriginalTime, mAudioData, mAudioBuffer>>

(* AudioData::SetTrimWindow *)
SetTrimWindow(aTrim) ==
  /\ pc = "live"
  /\ LET trimBefore == TUSub(aTrim.mStart, mOriginalTime)
         trimAfter == TUSub(aTrim.mEnd, mOriginalTime)
     IN IF mAudioData.null
          THEN \* MoveableData got called.
               /\ call' = Call("SetTrimWindow", aTrim.mStart.t, aTrim.mEnd.t, FALSE)
               /\ UNCHANGED <<pc, frame>>
        ELSE IF TrimOutOfRange(aTrim)
          THEN /\ call' = Call("SetTrimWindow", aTrim.mStart.t, aTrim.mEnd.t, FALSE)
               /\ UNCHANGED <<pc, frame>>
        ELSE IF ~IsValid(trimBefore) \/ ~IsValid(trimAfter)
          THEN \* Overflow.
               /\ call' = Call("SetTrimWindow", aTrim.mStart.t, aTrim.mEnd.t, FALSE)
               /\ UNCHANGED <<pc, frame>>
        ELSE IF NothingToChange(trimBefore, trimAfter)
          THEN /\ call' = Call("SetTrimWindow", aTrim.mStart.t, aTrim.mEnd.t, TRUE)
               /\ UNCHANGED <<pc, frame>>
        ELSE ApplyTrim(aTrim, trimBefore, trimAfter)

\* Mutant of Planar: the samples are copied in their interleaved order.
Planar_Interleaved(src, frames, channels) ==
  [k \in 1..(frames * channels) |-> src[k]]

(* AudioData::EnsureAudioBuffer: the planar copy of Data(), made once.     *)
Planar(src, frames, channels) ==
  [k \in 1..(frames * channels) |->
     LET j == (k - 1) \div frames
         i == (k - 1) % frames
     IN src[i * channels + j + 1]]

EnsureAudioBuffer ==
  /\ pc = "live"
  /\ call' = Call("EnsureAudioBuffer", 0, 0, TRUE)
  /\ IF ~mAudioBuffer.null \/ mAudioData.null
       THEN UNCHANGED <<pc, frame>>
       ELSE /\ mAudioBuffer' =
                 Buffer(Planar(PopFront(mAudioData.data, mDataOffset),
                               mFrames, mChannels))
            /\ UNCHANGED <<pc, mChannels, mRate, mOriginalTime, mTime,
                           mDuration, mAudioData, mDataOffset, mFrames,
                           mTrimWindow>>

\* Mutants of MoveableData: the front of the buffer is not dropped; the trim
\* window is not reset.
MoveableData_NoPopFront ==
  /\ pc = "live"
  /\ call' = Returned("MoveableData", 0, 0, TRUE,
                      [null |-> mAudioData.null,
                       data |-> SetLength(mAudioData.data, mFrames * mChannels)])
  /\ mAudioData' = NullBuffer
  /\ mDataOffset' = 0
  /\ mFrames' = 0
  /\ mTrimWindow' = Nothing
  /\ UNCHANGED <<pc, mChannels, mRate, mOriginalTime, mTime, mDuration,
                 mAudioBuffer>>
MoveableData_KeepTrimWindow ==
  /\ pc = "live"
  /\ LET popped == PopFront(mAudioData.data, mDataOffset)
         trimmed == SetLength(popped, mFrames * mChannels)
     IN call' = Returned("MoveableData", 0, 0, TRUE,
                         [null |-> mAudioData.null, data |-> trimmed])
  /\ mAudioData' = NullBuffer
  /\ mDataOffset' = 0
  /\ mFrames' = 0
  /\ UNCHANGED <<pc, mChannels, mRate, mOriginalTime, mTime, mDuration,
                 mAudioBuffer, mTrimWindow>>

(* AudioData::MoveableData: the trimmed range leaves the frame.            *)
MoveableData ==
  /\ pc = "live"
  /\ LET popped == PopFront(mAudioData.data, mDataOffset)
         trimmed == SetLength(popped, mFrames * mChannels)
     IN call' = Returned("MoveableData", 0, 0, TRUE,
                         [null |-> mAudioData.null, data |-> trimmed])
  /\ mAudioData' = NullBuffer
  /\ mDataOffset' = 0
  /\ mFrames' = 0
  /\ mTrimWindow' = Nothing
  /\ UNCHANGED <<pc, mChannels, mRate, mOriginalTime, mTime, mDuration,
                 mAudioBuffer>>

---------------------------------------------------------------------------
(* VideoData: a video frame keeps its times in the same MediaData fields   *)
(* mTime and mDuration; pc = "video" tells a constructed video frame.      *)

audioFields == <<mChannels, mRate, mOriginalTime, mAudioData, mDataOffset,
                 mFrames, mTrimWindow, mAudioBuffer>>

\* The durations and timestamps a caller passes to a video frame.
VideoDurations == {0 - 1, 0, 2, 3}
VideoTimestamps == {0 - 1, 0, 1, 3}

(* VideoData::VideoData.  The debug-only assertion ends a debug build when *)
(* the duration is negative; other builds go on.                           *)
VideoConstruct(aTime, aDuration) ==
  /\ pc = "none"
  /\ call' = Call("VideoData", aTime.t, aDuration.t, TRUE)
  /\ \E debug \in (IF IsNegative(aDuration) THEN BOOLEAN ELSE {FALSE}) :
       IF debug
         THEN /\ pc' = "aborted"
              /\ UNCHANGED <<mTime, mDuration>>
         ELSE /\ pc' = "video"
              /\ mTime' = aTime
              /\ mDuration' = aDuration
  /\ UNCHANGED audioFields

(* VideoData::UpdateDuration *)
UpdateDuration(aDuration) ==
  /\ pc = "video"
  /\ call' = Call("UpdateDuration", aDuration.t, 0, TRUE)
  /\ \E debug \in (IF IsNegative(aDuration) THEN BOOLEAN ELSE {FALSE}) :
       IF debug
         THEN /\ pc' = "aborted"
              /\ UNCHANGED mDuration
         ELSE /\ pc' = pc
              /\ mDuration' = aDuration
  /\ UNCHANGED <<mTime, audioFields>>

\* Mutant of UpdateTimestamp: the duration is not recomputed.
UpdateTimestamp_KeepDuration(aTimestamp) ==
  /\ pc = "video"
  /\ call' = Call("UpdateTimestamp", aTimestamp.t, 0, TRUE)
  /\ LET updatedDuration == TUSub(GetEndTime, aTimestamp)
     IN \E debug \in (IF IsNegative(aTimestamp) \/ IsNegative(updatedDuration)
                        THEN BOOLEAN ELSE {FALSE}) :
          IF debug
            THEN /\ pc' = "aborted"
                 /\ UNCHANGED <<mTime, mDuration>>
            ELSE /\ pc' = pc
                 /\ mTime' = aTimestamp
                 /\ mDuration' = mDuration
  /\ UNCHANGED audioFields

(* VideoData::UpdateTimestamp: the duration becomes GetEndTime() minus the *)
(* new timestamp.  Both assertions are debug-only.                         *)
UpdateTimestamp(aTimestamp) ==
  /\ pc = "video"
  /\ call' = Call("UpdateTimestamp", aTimestamp.t, 0, TRUE)
  /\ LET updatedDuration == TUSub(GetEndTime, aTimestamp)
     IN \E debug \in (IF IsNegative(aTimestamp) \/ IsNegative(updatedDuration)
                        THEN BOOLEAN ELSE {FALSE}) :
          IF debug
            THEN /\ pc' = "aborted"
                 /\ UNCHANGED <<mTime, mDuration>>
            ELSE /\ pc' = pc
                 /\ mTime' = aTimestamp
                 /\ mDuration' = updatedDuration
  /\ UNCHANGED audioFields

(* VideoData::AdjustForStartTime *)
VideoAdjustForStartTime(aStartTime) ==
  /\ pc = "video"
  /\ mTime' = TUSub(mTime, aStartTime)
  /\ call' = Call("VideoAdjustForStartTime", aStartTime.t, 0, IsValid(mTime'))
  /\ UNCHANGED <<pc, mDuration, audioFields>>

---------------------------------------------------------------------------
(* VideoData::CreateAndCopyData and the validation of its arguments.       *)
(* The limits are those of ImageContainer.h and VideoUtils.h, and the      *)
(* words are 32 bits there; here both are scaled down, in the same order:  *)
(* MAX_VIDEO_HEIGHT < MAX_VIDEO_WIDTH < MAX_DIMENSION, and the square of   *)
(* MAX_DIMENSION fits an unsigned word.                                    *)

MAX_DIMENSION == 4
MAX_VIDEO_WIDTH == 3
MAX_VIDEO_HEIGHT == 2
Int32Max == 15
Uint32Max == 2 * Int32Max + 1

\* The largest width, height or stride of a plane handed in.
MaxPlaneDim == 5

\* uint32_t multiplication.
Uint32Mul(a, b) == (a * b) % (Uint32Max + 1)
\* aInt + CheckedUint32(aWidth): valid when both operands and the sum are
\* unsigned 32-bit values.
CheckedUint32Add(a, b) ==
  [value |-> (a + b) % (Uint32Max + 1),
   isValid |-> a >= 0 /\ b >= 0 /\ a + b <= Uint32Max]

\* Mutant of ValidatePlane: the stride is not compared with the width.
ValidatePlane_StrideNotCompared(aPlane) ==
  /\ aPlane.mWidth <= MAX_DIMENSION
  /\ aPlane.mHeight <= MAX_DIMENSION
  /\ Uint32Mul(aPlane.mWidth, aPlane.mHeight) < MAX_VIDEO_WIDTH * MAX_VIDEO_HEIGHT
  /\ aPlane.mStride > 0

(* ValidatePlane *)
ValidatePlane(aPlane) ==
  /\ aPlane.mWidth <= MAX_DIMENSION
  /\ aPlane.mHeight <= MAX_DIMENSION
  /\ Uint32Mul(aPlane.mWidth, aPlane.mHeight) < MAX_VIDEO_WIDTH * MAX_VIDEO_HEIGHT
  /\ aPlane.mStride > 0
  /\ aPlane.mWidth <= aPlane.mStride

\* Mutant of ValidateBufferAndPicture: the planes are validated before the
\* picture is tested for emptiness.
ValidateBufferAndPicture_PlanesFirst(aPlanes, aPicture) ==
  LET xLimit == CheckedUint32Add(aPicture.x, aPicture.width)
      yLimit == CheckedUint32Add(aPicture.y, aPicture.height)
  IN IF \/ aPlanes[2].mWidth # aPlanes[3].mWidth
        \/ aPlanes[2].mHeight # aPlanes[3].mHeight
       THEN MediaResult("NS_ERROR_INVALID_ARG",
                        "Chroma planes with different sizes")
     ELSE IF \/ ~ValidatePlane(aPlanes[1])
             \/ ~ValidatePlane(aPlanes[2])
             \/ ~ValidatePlane(aPlanes[3])
       THEN MediaResult("NS_ERROR_INVALID_ARG", "Invalid plane size")
     ELSE IF aPicture.width <= 0 \/ aPicture.height <= 0
       THEN MediaResult("NS_ERROR_INVALID_ARG", "Empty picture rect")
     ELSE IF \/ ~xLimit.isValid \/ xLimit.value > aPlanes[1].mStride
             \/ ~yLimit.isValid \/ yLimit.value > aPlanes[1].mHeight
       THEN MediaResult("NS_ERROR_INVALID_ARG", "Overflowing picture rect")
     ELSE MediaResult("NS_OK", "")

(* ValidateBufferAndPicture: aPlanes is <<Y, Cb, Cr>>.                    *)
ValidateBufferAndPicture(aPlanes, aPicture) ==
  LET xLimit == CheckedUint32Add(aPicture.x, aPicture.width)
      yLimit == CheckedUint32Add(aPicture.y, aPicture.height)
  IN IF \/ aPlanes[2].mWidth # aPlanes[3].mWidth
        \/ aPlanes[2].mHeight # aPlanes[3].mHeight
       THEN MediaResult("NS_ERROR_INVALID_ARG",
                        "Chroma planes with different sizes")
     ELSE IF aPicture.width <= 0 \/ aPicture.height <= 0
       THEN MediaResult("NS_ERROR_INVALID_ARG", "Empty picture rect")
     ELSE IF \/ ~ValidatePlane(aPlanes[1])
             \/ ~ValidatePlane(aPlanes[2])
             \/ ~ValidatePlane(aPlanes[3])
       THEN MediaResult("NS_ERROR_INVALID_ARG", "Invalid plane size")
     ELSE IF \/ ~xLimit.isValid \/ xLimit.value > aPlanes[1].mStride
             \/ ~yLimit.isValid \/ yLimit.value > aPlanes[1].mHeight
       THEN MediaResult("NS_ERROR_INVALID_ARG", "Overflowing picture rect")
     ELSE MediaResult("NS_OK", "")

NS_FAILED(r) == r.code # "NS_OK"

\* The record of a call of CreateAndCopyData: ret is "frame" (a VideoData),
\* "err" (Err(result)) or "null"; image is the image the returned frame
\* holds; allocated and copied tell whether the call created an image and
\* whether it handed plane data to one; rect is the picture rectangle the
\* image was given.
Created(op, aPlanes, aPicture, aContainer, ret, result, image, allocated, copied) ==
  [op |-> op, planes |-> aPlanes, picture |-> aPicture,
   container |-> aContainer, valid |-> FALSE, ret |-> ret, result |-> result,
   image |-> image, allocated |-> allocated, copied |-> copied,
   rect |-> IF copied THEN aPicture ELSE IntRect(0, 0, 0, 0)]

\* Mutant of CreateAndCopyData: the picture is not validated.
CreateAndCopyData_NotValidated(aPlanes, aPicture, aContainer) ==
  /\ vcall = NoVCall
  /\ vcall' = Created("CreateAndCopyData", aPlanes, aPicture, aContainer,
                      "frame", MediaResult("NS_OK", ""),
                      IF aContainer THEN "PLANAR_YCBCR" ELSE "none",
                      aContainer, aContainer)
  /\ UNCHANGED <<frameVars, quantVars, rawVars, listVars>>

(* VideoData::CreateAndCopyData.  What the platform does is a choice:      *)
(* ioSurface, the IOSurface image of a macOS build took the data;          *)
(* created, the container made a PlanarYCbCrImage; copyFailed, CopyData    *)
(* failed, having copied plane data (partial) or not.                      *)
CreateAndCopyData(aPlanes, aPicture, aContainer) ==
  /\ vcall = NoVCall
  /\ LET r == ValidateBufferAndPicture(aPlanes, aPicture)
         Rec(ret, result, image, allocated, copied) ==
           Created("CreateAndCopyData", aPlanes, aPicture, aContainer,
                   ret, result, image, allocated, copied)
     IN IF ~aContainer
          THEN \* A dummy VideoData with no image.
               vcall' = Rec("frame", MediaResult("NS_OK", ""), "none",
                            FALSE, FALSE)
        ELSE IF NS_FAILED(r)
          THEN vcall' = Rec("err", r, "none", FALSE, FALSE)
        ELSE \E ioSurface, created, copyFailed, partial \in BOOLEAN :
               IF ioSurface
                 THEN /\ created /\ ~copyFailed /\ ~partial
                      /\ vcall' = Rec("frame", MediaResult("NS_OK", ""),
                                      "MAC_IOSURFACE", TRUE, TRUE)
               ELSE IF ~created
                 THEN /\ ~copyFailed /\ ~partial
                      /\ vcall' = Rec("err",
                                      MediaResult("NS_ERROR_OUT_OF_MEMORY",
                                        "Failed to create a PlanarYCbCrImage"),
                                      "none", FALSE, FALSE)
               ELSE IF copyFailed
                 THEN vcall' = Rec("err",
                                   MediaResult("CopyData failure",
                                               "Failed to copy image data"),
                                   "none", TRUE, partial)
               ELSE /\ ~partial
                    /\ vcall' = Rec("frame", MediaResult("NS_OK", ""),
                                    "PLANAR_YCBCR", TRUE, TRUE)
  /\ UNCHANGED <<frameVars, quantVars, rawVars, listVars>>

\* The steps of the alpha overload that may fail after the validation.
AlphaSteps ==
  {"none", "CreateSharedRGBImage", "Allocate", "GetTextureClient",
   "TextureClientAutoLock", "BorrowMappedData", "ConvertI420AlphaToARGB"}

(* VideoData::CreateAndCopyData, the overload with an alpha plane: it      *)
(* returns a null pointer on every failure.  failed is the step that       *)
(* failed.                                                                 *)
CreateAndCopyDataAlpha(aPlanes, aPicture, aContainer) ==
  /\ vcall = NoVCall
  /\ LET r == ValidateBufferAndPicture(aPlanes, aPicture)
         Rec(ret, result, image, allocated, copied) ==
           Created("CreateAndCopyDataAlpha", aPlanes, aPicture, aContainer,
                   ret, result, image, allocated, copied)
     IN IF ~aContainer
          THEN vcall' = Rec("frame", MediaResult("NS_OK", ""), "none",
                            FALSE, FALSE)
        ELSE IF NS_FAILED(r)
          THEN vcall' = Rec("null", r, "none", FALSE, FALSE)
        ELSE \E failed \in AlphaSteps :
               IF failed = "none"
                 THEN vcall' = Rec("frame", MediaResult("NS_OK", ""),
                                   "SHARED_RGB", TRUE, TRUE)
               ELSE vcall' = Rec("null", MediaResult("NS_OK", ""), "none",
                                 failed # "CreateSharedRGBImage",
                                 failed = "ConvertI420AlphaToARGB")
  /\ UNCHANGED <<frameVars, quantVars, rawVars, listVars>>

\* ValidatePlane applied to one plane.
CallValidatePlane(aPlane) ==
  /\ vcall = NoVCall
  /\ vcall' = [NoVCall EXCEPT !.op = "ValidatePlane", !.planes = <<aPlane>>,
                              !.valid = ValidatePlane(aPlane)]
  /\ UNCHANGED <<frameVars, quantVars, rawVars, listVars>>

\* The planes and pictures a decoder hands in.
PlaneDims == 0..MaxPlaneDim
YPlanes ==
  {Plane(w, h, stride) : w \in {2, MaxPlaneDim}, h \in {1, 2, MaxPlaneDim},
                         stride \in {0, 2, MaxPlaneDim}}
ChromaPlanes ==
  {Plane(w, h, stride) : w \in {1, 2}, h \in {1, 2}, stride \in {0, 2}}
Pictures ==
  {IntRect(x, y, w, h) : x \in {0 - 1, 0, 1}, y \in {0 - 1, 0, 1},
                         w \in {0, 1, 2}, h \in {0, 2}}

DoValidatePlane ==
  /\ vcall = NoVCall
  /\ \E w \in PlaneDims, h \in PlaneDims, stride \in PlaneDims :
       CallValidatePlane(Plane(w, h, stride))

DoCreateAndCopyData ==
  /\ vcall = NoVCall
  /\ \E y \in YPlanes, cb \in ChromaPlanes, cr \in ChromaPlanes,
        aPicture \in Pictures, aContainer \in BOOLEAN :
       CreateAndCopyData(<<y, cb, cr>>, aPicture, aContainer)

DoCreateAndCopyDataAlpha ==
  /\ vcall = NoVCall
  /\ \E y \in YPlanes, cb \in ChromaPlanes, cr \in ChromaPlanes,
        aPicture \in Pictures, aContainer \in BOOLEAN :
       CreateAndCopyDataAlpha(<<y, cb, cr>>, aPicture, aContainer)

NextCreate ==
  \/ DoValidatePlane
  \/ DoCreateAndCopyData
  \/ DoCreateAndCopyDataAlpha

\* One call of a static function of VideoData, on any arguments.
SpecCreate == Init /\ [][NextCreate]_vars

---------------------------------------------------------------------------
(* VideoData::QuantizableBuffer and the BufferRecycleBin it draws from.    *)
(* A plane's mData is a place in a buffer: buf is 0 for the memory of the  *)
(* decoder and otherwise the index in buffers of a buffer of a bin.        *)

\* The largest height of a plane and the largest stride in 16-bit samples.
MaxQDim == 2
\* The buffers the recycle bins hand out to one QuantizableBuffer.
MaxBuffers == 2

Bins == {1, 2}
ColorDepths == {8, 10, 12, 16}
\* The enumerators of ChromaSubsampling, and a value that is none of them.
Subsamplings == {"HALF_WIDTH_AND_HEIGHT", "HALF_WIDTH", "FULL", "unknown"}

Pointer(buf, off) == [buf |-> buf, off |-> off]
QPlane(data, stride, w, h) ==
  [mData |-> data, mStride |-> stride, mWidth |-> w, mHeight |-> h]

\* BufferRecycleBin::GetBuffer(aLength) of bin: a buffer of that length.
Acquired(bin, aLength) ==
  [bin |-> bin, length |-> aLength, state |-> "held", to |-> 0, size |-> 0]
\* UniquePtr: a buffer whose owner is overwritten is freed.
Freed(bufs, id) ==
  IF id = 0 THEN bufs ELSE [bufs EXCEPT ![id].state = "freed"]
\* BufferRecycleBin::RecycleBuffer(buffer, aSize) of bin.
Recycled(bufs, id, bin, aSize) ==
  [bufs EXCEPT ![id].state = "recycled", ![id].to = bin, ![id].size = aSize]

\* The record of a call of To8BitPerChannel: the bin passed, the colour
\* depth the buffer had, the result, and the buffer the call acquired (0 if
\* none).
QCall(bin, result, acquired) ==
  [op |-> "To8BitPerChannel", bin |-> bin, depth |-> mColorDepth,
   result |-> result, acquired |-> acquired]

(* A decoder fills a QuantizableBuffer: three planes in its own memory,    *)
(* the chroma planes of one size.                                          *)
QConstruct(aDepth, aSubsampling, y, c) ==
  /\ qpc = "none"
  /\ qpc' = "live"
  /\ mColorDepth' = aDepth
  /\ mChromaSubsampling' = aSubsampling
  /\ mPlanes' =
       << QPlane(Pointer(0, 0), y.mStride, y.mWidth, y.mHeight),
          QPlane(Pointer(0, y.mStride * y.mHeight),
                 c.mStride, c.mWidth, c.mHeight),
          QPlane(Pointer(0, y.mStride * y.mHeight + c.mStride * c.mHeight),
                 c.mStride, c.mWidth, c.mHeight) >>
  /\ mRecycleBin' = 0
  /\ m8bpcPlanes' = 0
  /\ mAllocatedLength' = 0
  /\ UNCHANGED <<buffers, qcall>>

\* The conversion routine of a colour depth and subsampling, if any: every
\* depth other than 10 bits selects the 12-bit routine.
ConvertFunc(aDepth, aSubsampling) ==
  IF aSubsampling = "HALF_WIDTH_AND_HEIGHT"
    THEN IF aDepth = 10 THEN "I010ToI420" ELSE "I012ToI420"
  ELSE IF aSubsampling = "HALF_WIDTH"
    THEN IF aDepth = 10 THEN "I210ToI422" ELSE "I212ToI422"
  ELSE IF aSubsampling = "FULL"
    THEN IF aDepth = 10 THEN "I410ToI444" ELSE "I412ToI444"
  ELSE "none"

\* Mutant of Repointed: the Cr plane is put where the Cb plane is.
Repointed_CrOverCb(dest, yStride, uvStride, yLength, uvLength) ==
  << [mPlanes[1] EXCEPT !.mData = Pointer(dest, 0), !.mStride = yStride],
     [mPlanes[2] EXCEPT !.mData = Pointer(dest, yLength), !.mStride = uvStride],
     [mPlanes[3] EXCEPT !.mData = Pointer(dest, yLength), !.mStride = uvStride] >>

(* To8BitPerChannel, lines 590-596: the planes repointed into dest.        *)
Repointed(dest, yStride, uvStride, yLength, uvLength) ==
  << [mPlanes[1] EXCEPT !.mData = Pointer(dest, 0), !.mStride = yStride],
     [mPlanes[2] EXCEPT !.mData = Pointer(dest, yLength), !.mStride = uvStride],
     [mPlanes[3] EXCEPT !.mData = Pointer(dest, yLength + uvLength),
                        !.mStride = uvStride] >>

(* VideoData::QuantizableBuffer::To8BitPerChannel, AllocateRecyclableData  *)
(* included.  The assertions are debug-only: where one fails a debug build *)
(* stops and any other build goes on.  A call made after a successful one  *)
(* reads its source planes from the buffer that the assignment to          *)
(* m8bpcPlanes has just freed: it may crash, or convert whatever it reads. *)
(* allocated: GetBuffer returned a buffer; r: the conversion's result.     *)
To8BitPerChannel(aRecycleBin) ==
  /\ qpc = "live"
  /\ LET yStride == mPlanes[1].mStride \div 2
         uvStride == mPlanes[2].mStride \div 2
         yLength == Uint32Mul(yStride, mPlanes[1].mHeight)
         uvLength == Uint32Mul(uvStride, mPlanes[2].mHeight)
         aLength == yLength + (uvLength * 2)
         assertFails ==
           \/ mRecycleBin # 0
           \/ mColorDepth \notin {10, 12}
           \/ m8bpcPlanes # 0
           \/ aLength = 0
         dangling ==
           m8bpcPlanes # 0 /\ \E i \in 1..3 : mPlanes[i].mData.buf = m8bpcPlanes
         dest == Len(buffers) + 1
     IN \E stops \in (IF assertFails \/ dangling THEN BOOLEAN ELSE {FALSE}),
           allocated \in BOOLEAN, r \in {0, 1} :
          IF stops
            THEN /\ allocated /\ r = 0
                 /\ qpc' = "aborted"
                 /\ qcall' = QCall(aRecycleBin, MediaResult("none", ""), 0)
                 /\ UNCHANGED <<mColorDepth, mChromaSubsampling, mPlanes,
                                mRecycleBin, m8bpcPlanes, mAllocatedLength,
                                buffers>>
          ELSE
            /\ qpc' = qpc
            /\ mRecycleBin' = aRecycleBin
            /\ mAllocatedLength' = aLength
            /\ mChromaSubsampling' = mChromaSubsampling
            /\ IF ~allocated
                 THEN /\ r = 0
                      /\ m8bpcPlanes' = 0
                      /\ buffers' = Freed(buffers, m8bpcPlanes)
                      /\ qcall' = QCall(aRecycleBin,
                                        MediaResult("NS_ERROR_OUT_OF_MEMORY",
                                                    "Cannot allocate"), 0)
                      /\ UNCHANGED <<mColorDepth, mPlanes>>
                 ELSE
                   /\ m8bpcPlanes' = dest
                   /\ buffers' = Append(Freed(buffers, m8bpcPlanes),
                                        Acquired(aRecycleBin, aLength))
                   /\ IF ConvertFunc(mColorDepth, mChromaSubsampling) = "none"
                        THEN /\ r = 0
                             /\ qcall' =
                                  QCall(aRecycleBin,
                                        MediaResult("NS_ERROR_DOM_MEDIA_DECODE_ERR",
                                                    "Source format not supported"),
                                        dest)
                             /\ UNCHANGED <<mColorDepth, mPlanes>>
                      ELSE IF r # 0
                        THEN /\ qcall' =
                                  QCall(aRecycleBin,
                                        MediaResult("NS_ERROR_DOM_MEDIA_DECODE_ERR",
                                                    "Conversion to 8-bit failed"),
                                        dest)
                             /\ UNCHANGED <<mColorDepth, mPlanes>>
                      ELSE /\ mColorDepth' = 8
                           /\ mPlanes' = Repointed(dest, yStride, uvStride,
                                                   yLength, uvLength)
                           /\ qcall' = QCall(aRecycleBin,
                                             MediaResult("NS_OK", ""), dest)

(* VideoData::QuantizableBuffer::~QuantizableBuffer *)
DestroyQuantizableBuffer ==
  /\ qpc = "live"
  /\ qpc' = "destroyed"
  /\ IF m8bpcPlanes # 0
       THEN /\ buffers' = Recycled(buffers, m8bpcPlanes, mRecycleBin,
                                   mAllocatedLength)
            /\ m8bpcPlanes' = 0
       ELSE UNCHANGED <<buffers, m8bpcPlanes>>
  /\ UNCHANGED <<mColorDepth, mChromaSubsampling, mPlanes, mRecycleBin,
                 mAllocatedLength, qcall>>

\* The planes a decoder delivers: 16-bit samples, the stride in bytes.
QHeights == 1..MaxQDim
QStrides == {2 * n : n \in 1..MaxQDim}

DoQConstruct ==
  /\ qpc = "none"
  /\ \E aDepth \in ColorDepths, aSubsampling \in Subsamplings,
        yh \in QHeights, ys \in QStrides, ch \in QHeights, cs \in QStrides :
       /\ ch <= yh /\ cs <= ys
       /\ QConstruct(aDepth, aSubsampling,
                     Plane(ys \div 2, yh, ys), Plane(cs \div 2, ch, cs))
  /\ UNCHANGED <<frameVars, vcall, rawVars, listVars>>

DoTo8BitPerChannel ==
  /\ qpc = "live"
  /\ Len(buffers) < MaxBuffers
  /\ \E aRecycleBin \in Bins : To8BitPerChannel(aRecycleBin)
  /\ UNCHANGED <<frameVars, vcall, rawVars, listVars>>

DoDestroyQuantizableBuffer ==
  /\ DestroyQuantizableBuffer
  /\ UNCHANGED <<frameVars, vcall, rawVars, listVars>>

NextQuantize ==
  \/ DoQConstruct
  \/ DoTo8BitPerChannel
  \/ DoDestroyQuantizableBuffer

\* One QuantizableBuffer from the decoder to its destruction.
SpecQuantize == Init /\ [][NextQuantize]_vars

---------------------------------------------------------------------------
(* MediaRawData: an encoded sample with a primary and an alpha payload,    *)
(* each an AlignedByteBuffer member that points to storage of its own on   *)
(* the heap, and MediaRawDataWriter, which writes the primary payload and  *)
(* the crypto data of its target.                                          *)

\* The samples alive at one time (the demuxer's and its clones), and the
\* calls made on writers in one behaviour.
MaxSamples == 2
MaxWrites == 2

\* AlignedByteBuffer: mData is the address of its storage (0 when null),
\* mLength the bytes in use; the capacity is the size of the storage.
NullBytes == [mData |-> 0, mLength |-> 0]
Contents(h, b) == IF b.mData = 0 THEN <<>> ELSE SubSeq(h[b.mData], 1, b.mLength)
Capacity(h, b) == IF b.mData = 0 THEN 0 ELSE Len(h[b.mData])
\* The buffer b made to hold content: in place when the storage is large
\* enough, in a new storage otherwise, which fails when the allocation does.
Store(h, b, content, alloc) ==
  IF Len(content) > Capacity(h, b)
    THEN IF alloc
           THEN [ok |-> TRUE, heap |-> Append(h, content),
                 buf |-> [mData |-> Len(h) + 1, mLength |-> Len(content)]]
           ELSE [ok |-> FALSE, heap |-> h, buf |-> b]
    ELSE [ok |-> TRUE,
          heap |-> IF b.mData = 0 THEN h
                   ELSE [h EXCEPT ![b.mData] =
                           [i \in 1..Len(@) |->
                              IF i <= Len(content) THEN content[i] ELSE @[i]]],
          buf |-> [b EXCEPT !.mLength = Len(content)]]
\* Whether storing n bytes in b allocates: the outcomes of the allocation.
Allocations(h, b, n) == IF n > Capacity(h, b) THEN BOOLEAN ELSE {TRUE}

\* The payloads of a sample.
Payload(h, s) == Contents(h, s.mBuffer)
AlphaPayload(h, s) == Contents(h, s.mAlphaBuffer)

(* MediaRawData::MediaRawData(): the sample with identity id.  Its public  *)
(* mCrypto is bound to its own mCryptoInternal.                            *)
NewRawData(id) ==
  [mTimecode |-> TimeUnit(0), mTime |-> TimeUnit(0), mDuration |-> TimeUnit(0),
   mOffset |-> 0, mKeyframe |-> FALSE, mEOS |-> FALSE, mExtraData |-> 0,
   mCryptoInternal |-> "none", mCrypto |-> id, mTrackInfo |-> 0,
   mOriginalPresentationWindow |-> Nothing,
   mBuffer |-> NullBytes, mAlphaBuffer |-> NullBytes]

\* The record of a call on sample target: what it returned (for Clone the
\* identity of the new sample, 0 for null) and the payloads Clone copied.
RCall(op, target, ret, copied) ==
  [op |-> op, target |-> target, ret |-> ret, copied |-> copied]

(* MediaRawData::MediaRawData(aData, aSize, aAlphaData, aAlphaSize), and   *)
(* the demuxer that fills the public fields of the sample.                 *)
RawConstruct(aData, aAlphaData, t, aKeyframe, aEOS, aTrackInfo, aCrypto) ==
  /\ samples = <<>>
  /\ LET p == Store(heap, NullBytes, aData, TRUE)
         a == Store(p.heap, NullBytes, aAlphaData, TRUE)
     IN /\ samples' =
             << [NewRawData(1) EXCEPT
                   !.mTimecode = TimeUnit(t), !.mTime = TimeUnit(t + 1),
                   !.mDuration = TimeUnit(t + 2), !.mOffset = t + 3,
                   !.mKeyframe = aKeyframe, !.mEOS = aEOS,
                   !.mExtraData = aTrackInfo, !.mTrackInfo = aTrackInfo,
                   !.mCryptoInternal = aCrypto,
                   !.mOriginalPresentationWindow =
                      IF aKeyframe THEN Some(Interval(t, t + 2)) ELSE Nothing,
                   !.mBuffer = p.buf, !.mAlphaBuffer = a.buf] >>
        /\ heap' = a.heap
  /\ rcall' = RCall("MediaRawData", 0, 1, 0)

\* The fields Clone assigns to the new sample.
Assigned(s, from) ==
  [s EXCEPT !.mTimecode = from.mTimecode, !.mTime = from.mTime,
            !.mDuration = from.mDuration, !.mOffset = from.mOffset,
            !.mKeyframe = from.mKeyframe, !.mExtraData = from.mExtraData,
            !.mCryptoInternal = from.mCryptoInternal,
            !.mTrackInfo = from.mTrackInfo, !.mEOS = from.mEOS,
            !.mOriginalPresentationWindow = from.mOriginalPresentationWindow]

\* Mutants of Clone: the new sample takes the source's buffers, pointers
\* and all; a failed copy of the alpha payload is not reported.
Clone_SharesStorage(src) ==
  /\ src \in 1..Len(samples)
  /\ LET id == Len(samples) + 1
         from == samples[src]
     IN /\ samples' =
             Append(samples, [Assigned(NewRawData(id), from) EXCEPT
                                !.mBuffer = from.mBuffer,
                                !.mAlphaBuffer = from.mAlphaBuffer])
        /\ rcall' = RCall("Clone", src, id, 2)
        /\ UNCHANGED heap
Clone_AlphaFailureIgnored(src) ==
  /\ src \in 1..Len(samples)
  /\ LET id == Len(samples) + 1
         from == samples[src]
         s == Assigned(NewRawData(id), from)
     IN \E allocated \in Allocations(heap, s.mBuffer, from.mBuffer.mLength),
           allocatedAlpha \in
             Allocations(heap, s.mAlphaBuffer, from.mAlphaBuffer.mLength) :
          LET p == Store(heap, s.mBuffer, Payload(heap, from), allocated)
              a == Store(p.heap, s.mAlphaBuffer, AlphaPayload(heap, from),
                         allocatedAlpha)
          IN IF ~p.ok
               THEN /\ rcall' = RCall("Clone", src, 0, 0)
                    /\ UNCHANGED <<samples, heap>>
               ELSE /\ samples' = Append(samples, [s EXCEPT !.mBuffer = p.buf,
                                                     !.mAlphaBuffer = a.buf])
                    /\ heap' = a.heap
                    /\ rcall' = RCall("Clone", src, id, IF a.ok THEN 2 ELSE 1)

(* MediaRawData::Clone.  The new sample is dropped, with the storage it    *)
(* got, when either Append fails.                                          *)
Clone(src) ==
  /\ src \in 1..Len(samples)
  /\ LET id == Len(samples) + 1
         from == samples[src]
         s == Assigned(NewRawData(id), from)
     IN \E allocated \in Allocations(heap, s.mBuffer, from.mBuffer.mLength),
           allocatedAlpha \in
             Allocations(heap, s.mAlphaBuffer, from.mAlphaBuffer.mLength) :
          LET p == Store(heap, s.mBuffer, Payload(heap, from), allocated)
              a == Store(p.heap, s.mAlphaBuffer, AlphaPayload(heap, from),
                         allocatedAlpha)
          IN IF ~p.ok
               THEN /\ rcall' = RCall("Clone", src, 0, 0)
                    /\ UNCHANGED <<samples, heap>>
             ELSE IF ~a.ok
               THEN /\ rcall' = RCall("Clone", src, 0, 1)
                    /\ UNCHANGED <<samples, heap>>
             ELSE /\ samples' = Append(samples, [s EXCEPT !.mBuffer = p.buf,
                                                   !.mAlphaBuffer = a.buf])
                  /\ heap' = a.heap
                  /\ rcall' = RCall("Clone", src, id, 2)

(* MediaRawDataWriter of sample target: SetSize, Prepend, Append and       *)
(* Replace give the primary payload the content named here and return      *)
(* whether that succeeded.                                                 *)
WriterStore(op, target, content) ==
  /\ target \in 1..Len(samples)
  /\ \E allocated \in
         Allocations(heap, samples[target].mBuffer, Len(content)) :
       LET r == Store(heap, samples[target].mBuffer, content, allocated)
       IN /\ samples' = [samples EXCEPT ![target].mBuffer = r.buf]
          /\ heap' = r.heap
          /\ rcall' = RCall(op, target, IF r.ok THEN 1 ELSE 0, 0)

WriterSetSize(target, aSize) ==
  WriterStore("SetSize", target,
              SetLength(Payload(heap, samples[target]), aSize))
WriterPrepend(target, aData) ==
  WriterStore("Prepend", target, aData \o Payload(heap, samples[target]))
WriterAppend(target, aData) ==
  WriterStore("Append", target, Payload(heap, samples[target]) \o aData)
WriterReplace(target, aData) == WriterStore("Replace", target, aData)
\* MediaRawDataWriter::PopFront
WriterPopFront(target, aSize) ==
  WriterStore("PopFront", target,
              PopFront(Payload(heap, samples[target]), aSize))
\* MediaRawDataWriter::Clear
WriterClear(target) == WriterStore("Clear", target, <<>>)
\* A write of byte i through the pointer MediaRawDataWriter::Data returns.
WriterData(target, i, v) ==
  /\ target \in 1..Len(samples)
  /\ i \in 1..samples[target].mBuffer.mLength
  /\ heap' = [heap EXCEPT ![samples[target].mBuffer.mData][i] = v]
  /\ rcall' = RCall("Data", target, 1, 0)
  /\ UNCHANGED samples
\* A write through MediaRawDataWriter::mCrypto, the reference the writer
\* binds to its target's mCryptoInternal.
WriterCrypto(target, aCrypto) ==
  /\ target \in 1..Len(samples)
  /\ samples' = [samples EXCEPT ![samples[target].mCrypto].mCryptoInternal =
                                   aCrypto]
  /\ rcall' = RCall("mCrypto", target, 1, 0)
  /\ UNCHANGED heap

\* What the demuxer and the writers pass.
PrimaryData == {<<>>, <<1, 2>>}
AlphaData == {<<>>, <<5>>}
Cryptos == {"none", "cenc"}
Written == <<9>>

\* Every call on a writer counts against the budget of writer calls.
CountedWrite ==
  /\ Len(samples) >= 1
  /\ calls < MaxWrites
  /\ calls' = calls + 1
  /\ UNCHANGED <<pc, frame, call, vcall, quantVars, listVars>>

DoRawConstruct ==
  /\ samples = <<>>
  /\ \E aData \in PrimaryData, aAlphaData \in AlphaData,
        aKeyframe \in BOOLEAN, aTrackInfo \in {0, 1} :
       RawConstruct(aData, aAlphaData, IF aKeyframe THEN 1 ELSE 0, aKeyframe,
                    ~aKeyframe, aTrackInfo,
                    IF aTrackInfo = 0 THEN "none" ELSE "cenc")
  /\ UNCHANGED <<frameVars, vcall, quantVars, listVars>>

DoClone ==
  /\ Len(samples) \in 1..(MaxSamples - 1)
  /\ \E src \in 1..Len(samples) : Clone(src)
  /\ UNCHANGED <<frameVars, vcall, quantVars, listVars>>

DoWriterResize ==
  /\ CountedWrite
  /\ \E target \in 1..Len(samples) :
       \/ WriterSetSize(target, samples[target].mBuffer.mLength + 1)
       \/ WriterSetSize(target, 0)
       \/ WriterPrepend(target, Written)
       \/ WriterAppend(target, Written)
       \/ WriterReplace(target, Written)
       \/ WriterPopFront(target, 1)
       \/ WriterClear(target)

DoWriterData ==
  /\ CountedWrite
  /\ \E target \in 1..Len(samples) :
       \E i \in 1..samples[target].mBuffer.mLength :
         WriterData(target, i, Written[1])

DoWriterCrypto ==
  /\ CountedWrite
  /\ \E target \in 1..Len(samples), aCrypto \in Cryptos :
       WriterCrypto(target, aCrypto)

NextClone ==
  \/ DoRawConstruct
  \/ DoClone
  \/ DoWriterResize
  \/ DoWriterData
  \/ DoWriterCrypto

\* A demuxed sample, its clones and their writers.
SpecClone == Init /\ [][NextClone]_vars

---------------------------------------------------------------------------
(* PROT_ListManager (UrlClassifierListManager.sys.mjs): the tables, the    *)
(* single-use update-check timer of each update URL, and the update        *)
(* requests in flight.  Every handler runs to completion on the main       *)
(* thread; timers, the idle observer, getTables and the stream updater     *)
(* call back later, in any order.  Tables are registered with an update    *)
(* URL, and their names are not those of protobuf tables.                  *)

minDelayMs == 5 * 60 * 1000
maxDelayMs == 24 * 60 * 60 * 1000
defaultUpdateIntervalMs == 30 * 60 * 1000

\* The timers, observers and requests the model keeps in flight at a time.
MaxInFlight == 2

RECURSIVE Sum(_, _)
Sum(f, S) ==
  IF S = {} THEN 0
  ELSE LET x == CHOOSE y \in S : TRUE IN f[x] + Sum(f, S \ {x})

\* The timers of updateUrl that are armed: the one its entry refers to and
\* the ones that were replaced without being cancelled.
Armed(updateUrl) ==
  (IF updateCheckers[updateUrl] THEN 1 ELSE 0) + orphanTimers[updateUrl]
InFlight ==
  Sum([u \in Urls |-> Armed(u) + idleObservers[u] + pendingGetTables[u]
                        + pendingDownloads[u]], Urls)

LCall(op, url, wait, delay) ==
  [op |-> op, url |-> url, wait |-> wait, delay |-> delay]

\* #updatesNeeded
UpdatesNeeded(needs, updateUrl) ==
  \E tableName \in Tables : needs[updateUrl][tableName] = "true"

\* requireTableUpdates
RequireTableUpdates ==
  \E name \in Tables :
    tablesData[name] # "" /\ needsUpdate[tablesData[name]][name] = "true"

\* nsITimer.cancel() and the reset of the entry, for the URLs in urls.
Cancelled(checkers, urls) ==
  [u \in Urls |-> checkers[u] /\ u \notin urls]

\* setUpdateCheckTimer, for the URLs in urls: each entry is overwritten with
\* a new timer; a timer the entry referred to stays armed.
TimersSet(urls) ==
  /\ updateCheckers' = [u \in Urls |-> updateCheckers[u] \/ u \in urls]
  /\ orphanTimers' =
       [u \in Urls |->
          orphanTimers[u] + (IF u \in urls /\ updateCheckers[u] THEN 1 ELSE 0)]

(* registerTable *)
RegisterTable(tableName, updateUrl) ==
  /\ tablesData' = [tablesData EXCEPT ![tableName] = updateUrl]
  /\ requestBackoffs' = requestBackoffs \cup {updateUrl}
  /\ needsUpdate' = [needsUpdate EXCEPT ![updateUrl][tableName] = "false"]
  /\ lcall' = LCall("registerTable", updateUrl, <<>>, 0)
  /\ UNCHANGED <<updateCheckers, startingUpdate, orphanTimers, idleObservers,
                 pendingGetTables, pendingDownloads>>

(* unregisterTable: the timer is cancelled when no table of the URL needs  *)
(* updates, and only then is the table's entry deleted.                    *)
UnregisterTable(tableName) ==
  LET updateUrl == tablesData[tableName]
  IN /\ IF updateUrl # ""
          THEN /\ updateCheckers' =
                    IF ~UpdatesNeeded(needsUpdate, updateUrl)
                      THEN Cancelled(updateCheckers, {updateUrl})
                      ELSE updateCheckers
               /\ needsUpdate' =
                    [needsUpdate EXCEPT ![updateUrl][tableName] = "none"]
          ELSE UNCHANGED <<updateCheckers, needsUpdate>>
     /\ tablesData' = [tablesData EXCEPT ![tableName] = ""]
     /\ lcall' = LCall("unregisterTable", updateUrl, <<>>, 0)
     /\ UNCHANGED <<requestBackoffs, startingUpdate, orphanTimers,
                    idleObservers, pendingGetTables, pendingDownloads>>

(* enableUpdate *)
EnableUpdate(tableName) ==
  LET updateUrl == tablesData[tableName]
  IN /\ needsUpdate' =
          IF updateUrl # ""
            THEN [needsUpdate EXCEPT ![updateUrl][tableName] = "true"]
            ELSE needsUpdate
     /\ lcall' = LCall("enableUpdate", updateUrl, <<>>, 0)
     /\ UNCHANGED <<tablesData, requestBackoffs, updateCheckers,
                    startingUpdate, orphanTimers, idleObservers,
                    pendingGetTables, pendingDownloads>>

(* disableUpdate *)
DisableUpdate(tableName) ==
  LET updateUrl == tablesData[tableName]
      needs == [needsUpdate EXCEPT ![updateUrl][tableName] = "false"]
  IN /\ IF updateUrl # ""
          THEN /\ needsUpdate' = needs
               /\ updateCheckers' =
                    IF ~UpdatesNeeded(needs, updateUrl)
                      THEN Cancelled(updateCheckers, {updateUrl})
                      ELSE updateCheckers
          ELSE UNCHANGED <<needsUpdate, updateCheckers>>
     /\ lcall' = LCall("disableUpdate", updateUrl, <<>>, 0)
     /\ UNCHANGED <<tablesData, requestBackoffs, startingUpdate, orphanTimers,
                    idleObservers, pendingGetTables, pendingDownloads>>

(* maybeToggleUpdateChecking, with #kickoffUpdate and stopUpdateCheckers.  *)
(* updateDelay is the delay #kickoffUpdate computes from the clock, the    *)
(* fuzz and the provider's nextupdatetime preference.                      *)
MaybeToggleUpdateChecking(updateDelay) ==
  /\ IF RequireTableUpdates
       THEN IF ~startingUpdate
              THEN TimersSet({u \in requestBackoffs :
                                /\ UpdatesNeeded(needsUpdate, u)
                                /\ ~updateCheckers[u]})
              ELSE UNCHANGED <<updateCheckers, orphanTimers>>
       ELSE /\ updateCheckers' = Cancelled(updateCheckers, Urls)
            /\ UNCHANGED orphanTimers
  /\ startingUpdate' =
       IF RequireTableUpdates /\ ~startingUpdate THEN FALSE ELSE startingUpdate
  /\ lcall' = LCall("maybeToggleUpdateChecking", "", <<>>, updateDelay)
  /\ UNCHANGED <<tablesData, needsUpdate, requestBackoffs, idleObservers,
                 pendingGetTables, pendingDownloads>>

(* checkForUpdates: whether the request is made.  inSafeMode is            *)
(* Services.appinfo.inSafeMode, canMakeRequest the answer of the           *)
(* URL's RequestBackoffV4.                                                 *)
CheckForUpdates(updateUrl, manual, inSafeMode, canMakeRequest) ==
  /\ updateUrl # ""
  /\ ~(inSafeMode /\ ~manual)
  /\ updateUrl \in requestBackoffs
  /\ canMakeRequest

(* forceUpdates: for each URL of the tables the timer is cancelled and an  *)
(* update is requested; allowed are the URLs whose back-off permits one.   *)
ForceUpdates(tables, allowed) ==
  LET updateUrls == {tablesData[t] : t \in tables} \ {""}
      checked == {u \in updateUrls : CheckForUpdates(u, TRUE, FALSE, u \in allowed)}
  IN /\ updateCheckers' = Cancelled(updateCheckers, updateUrls)
     /\ pendingGetTables' =
          [u \in Urls |-> pendingGetTables[u] + (IF u \in checked THEN 1 ELSE 0)]
     /\ lcall' = LCall("forceUpdates", "", <<>>, 0)
     /\ UNCHANGED <<tablesData, needsUpdate, requestBackoffs, startingUpdate,
                    orphanTimers, idleObservers, pendingDownloads>>

(* The helper update of setUpdateCheckTimer: an update is requested, or a  *)
(* timer is set for another attempt.  checkers and orphans are the timers  *)
(* as the caller left them.                                                *)
Update(op, updateUrl, checkers, orphans, inSafeMode, canMakeRequest) ==
  IF CheckForUpdates(updateUrl, FALSE, inSafeMode, canMakeRequest)
    THEN /\ pendingGetTables' = [pendingGetTables EXCEPT ![updateUrl] = @ + 1]
         /\ updateCheckers' = checkers
         /\ orphanTimers' = orphans
         /\ lcall' = LCall(op, updateUrl, <<>>, 0)
    ELSE /\ updateCheckers' = [checkers EXCEPT ![updateUrl] = TRUE]
         /\ orphanTimers' =
              [orphans EXCEPT ![updateUrl] =
                 @ + (IF checkers[updateUrl] THEN 1 ELSE 0)]
         /\ lcall' = LCall(op, updateUrl, <<>>, defaultUpdateIntervalMs)
         /\ UNCHANGED pendingGetTables

(* The callback of a timer of updateUrl, lines 272-288: the timer that     *)
(* fires is the one the entry refers to (referred) or one that was         *)
(* replaced.  The entry is reset whichever fires.                          *)
TimerFires(updateUrl, referred, idle, inSafeMode, canMakeRequest) ==
  /\ IF referred THEN updateCheckers[updateUrl]
                 ELSE orphanTimers[updateUrl] > 0
  /\ LET checkers == [updateCheckers EXCEPT ![updateUrl] = FALSE]
         orphans ==
           [orphanTimers EXCEPT ![updateUrl] =
              IF referred THEN @
              ELSE @ - 1 + (IF updateCheckers[updateUrl] THEN 1 ELSE 0)]
     IN IF idle
          THEN /\ idleObservers' = [idleObservers EXCEPT ![updateUrl] = @ + 1]
               /\ updateCheckers' = checkers
               /\ orphanTimers' = orphans
               /\ lcall' = LCall("timer", updateUrl, <<>>, 0)
               /\ UNCHANGED pendingGetTables
          ELSE /\ Update("timer", updateUrl, checkers, orphans, inSafeMode,
                         canMakeRequest)
               /\ UNCHANGED idleObservers
  /\ UNCHANGED <<tablesData, needsUpdate, requestBackoffs, startingUpdate,
                 pendingDownloads>>

(* The observer of user-interaction-active, lines 278-281.                 *)
UserInteractionActive(updateUrl, inSafeMode, canMakeRequest) ==
  /\ idleObservers[updateUrl] > 0
  /\ idleObservers' = [idleObservers EXCEPT ![updateUrl] = @ - 1]
  /\ Update("observer", updateUrl, updateCheckers, orphanTimers, inSafeMode,
            canMakeRequest)
  /\ UNCHANGED <<tablesData, needsUpdate, requestBackoffs, startingUpdate,
                 pendingDownloads>>

(* The getTables callback: #makeUpdateRequest sends a request when a table *)
(* of the URL needs updates, and nothing otherwise.                        *)
MakeUpdateRequest(updateUrl) ==
  /\ pendingGetTables[updateUrl] > 0
  /\ pendingGetTables' = [pendingGetTables EXCEPT ![updateUrl] = @ - 1]
  /\ pendingDownloads' =
       IF \E tableName \in Tables :
            /\ tablesData[tableName] = updateUrl
            /\ needsUpdate[updateUrl][tableName] = "true"
         THEN [pendingDownloads EXCEPT ![updateUrl] = @ + 1]
         ELSE pendingDownloads
  /\ lcall' = LCall("makeUpdateRequest", updateUrl, <<>>, 0)
  /\ UNCHANGED <<tablesData, needsUpdate, requestBackoffs, updateCheckers,
                 startingUpdate, orphanTimers, idleObservers>>

\* parseInt(s, 10) of a string of decimal digits.
RECURSIVE ParseInt(_)
ParseInt(digits) ==
  IF digits = <<>> THEN 0
  ELSE 10 * ParseInt(SubSeq(digits, 1, Len(digits) - 1)) + digits[Len(digits)]

\* Mutant of UpdateSuccessDelay: a delay that is too short is used as given.
UpdateSuccessDelay_ShortKept(waitForUpdateSec) ==
  LET delay == IF waitForUpdateSec # <<>>
                 THEN ParseInt(waitForUpdateSec) * 1000 ELSE 0
  IN IF delay > maxDelayMs THEN maxDelayMs
     ELSE IF delay = 0 THEN defaultUpdateIntervalMs
     ELSE delay

(* #updateSuccess, lines 670-693: the delay of the next check.             *)
UpdateSuccessDelay(waitForUpdateSec) ==
  LET delay == IF waitForUpdateSec # <<>>
                 THEN ParseInt(waitForUpdateSec) * 1000 ELSE 0
  IN IF delay > maxDelayMs THEN maxDelayMs
     ELSE IF delay < minDelayMs THEN defaultUpdateIntervalMs
     ELSE delay

(* The callbacks of the stream updater: #updateSuccess, #updateError and   *)
(* #downloadError.  Each sets the timer of the URL.                        *)
DownloadDone(op, updateUrl, wait, delay) ==
  /\ pendingDownloads[updateUrl] > 0
  /\ pendingDownloads' = [pendingDownloads EXCEPT ![updateUrl] = @ - 1]
  /\ TimersSet({updateUrl})
  /\ lcall' = LCall(op, updateUrl, wait, delay)
  /\ UNCHANGED <<tablesData, needsUpdate, requestBackoffs, startingUpdate,
                 idleObservers, pendingGetTables>>

UpdateSuccess(updateUrl, waitForUpdateSec) ==
  DownloadDone("updateSuccess", updateUrl, waitForUpdateSec,
               UpdateSuccessDelay(waitForUpdateSec))
UpdateError(updateUrl) ==
  DownloadDone("updateError", updateUrl, <<>>, defaultUpdateIntervalMs)
\* nextRequestDelay is the delay the URL's RequestBackoffV4 asks for.
DownloadError(updateUrl, nextRequestDelay) ==
  DownloadDone("downloadError", updateUrl, <<>>, nextRequestDelay)

\* What the callers, the server and the environment pass.
WaitValues ==
  {<<>>, <<0>>, <<2, 9, 9>>, <<3, 0, 0>>, <<3, 0, 1>>, <<8, 6, 4, 0, 0>>,
   <<8, 6, 4, 0, 1>>}
KickoffDelays == {0, 3000, maxDelayMs}
BackoffDelays == {0, defaultUpdateIntervalMs}
\* The tables the providers register, each with its update URL: two tables
\* of one provider, and one that is registered again with another URL.
Registrations == {<<"t1", "u1">>, <<"t2", "u1">>, <<"t2", "u2">>}

Idle == UNCHANGED <<frameVars, vcall, quantVars, rawVars>>

DoRegisterTable ==
  /\ \E r \in Registrations : RegisterTable(r[1], r[2])
  /\ Idle

DoUnregisterTable ==
  /\ \E tableName \in Tables : UnregisterTable(tableName)
  /\ Idle

DoEnableUpdate ==
  /\ \E tableName \in Tables : EnableUpdate(tableName)
  /\ Idle

DoDisableUpdate ==
  /\ \E tableName \in Tables : DisableUpdate(tableName)
  /\ Idle

DoMaybeToggleUpdateChecking ==
  /\ InFlight < MaxInFlight
  /\ \E updateDelay \in KickoffDelays : MaybeToggleUpdateChecking(updateDelay)
  /\ Idle

DoForceUpdates ==
  /\ InFlight < MaxInFlight
  /\ \E tables \in (SUBSET Tables) \ {{}}, allowed \in SUBSET Urls :
       ForceUpdates(tables, allowed)
  /\ Idle

DoTimerFires ==
  /\ \E updateUrl \in Urls, referred, idle, inSafeMode, canMakeRequest \in BOOLEAN :
       TimerFires(updateUrl, referred, idle, inSafeMode, canMakeRequest)
  /\ Idle

DoUserInteractionActive ==
  /\ \E updateUrl \in Urls, inSafeMode, canMakeRequest \in BOOLEAN :
       UserInteractionActive(updateUrl, inSafeMode, canMakeRequest)
  /\ Idle

DoMakeUpdateRequest ==
  /\ \E updateUrl \in Urls : MakeUpdateRequest(updateUrl)
  /\ Idle

DoUpdateSuccess ==
  /\ \E updateUrl \in Urls, waitForUpdateSec \in WaitValues :
       UpdateSuccess(updateUrl, waitForUpdateSec)
  /\ Idle

DoUpdateError ==
  /\ \E updateUrl \in Urls : UpdateError(updateUrl)
  /\ Idle

DoDownloadError ==
  /\ \E updateUrl \in Urls, nextRequestDelay \in BackoffDelays :
       DownloadError(updateUrl, nextRequestDelay)
  /\ Idle

NextList ==
  \/ DoRegisterTable
  \/ DoUnregisterTable
  \/ DoEnableUpdate
  \/ DoDisableUpdate
  \/ DoMaybeToggleUpdateChecking
  \/ DoForceUpdates
  \/ DoTimerFires
  \/ DoUserInteractionActive
  \/ DoMakeUpdateRequest
  \/ DoUpdateSuccess
  \/ DoUpdateError
  \/ DoDownloadError

\* The list manager, its callers and its callbacks.
SpecList == Init /\ [][NextList]_vars

---------------------------------------------------------------------------
\* The windows a caller passes: valid intervals around the frame's range.
SpanTicks ==
  IF mAudioData.null THEN mDuration.t
  ELSE ((Len(mAudioData.data) \div mChannels) * TickBase) \div mRate
TrimTimes ==
  {x \in (0 - TickLimit)..(TickLimit - 1) :
     /\ mOriginalTime.t - 1 <= x
     /\ x <= mOriginalTime.t + SpanTicks + 1}

\* Every call counts against the budget of calls on the frame.
Counted ==
  /\ calls < MaxCalls
  /\ calls' = calls + 1
  /\ UNCHANGED <<vcall, quantVars, rawVars, listVars>>

DoConstruct ==
  /\ Counted
  /\ \E aTime \in StartTimes, aLen \in 1..MaxLen,
        aChannels \in 0..MaxChannels, aRate \in Rates \cup {0} :
       Construct(aTime, aLen, aChannels, aRate)

DoSetOriginalStartTime ==
  /\ Counted
  /\ \E aStartTime \in StartTimes :
       SetOriginalStartTime(TimeUnit(aStartTime))

DoAdjustForStartTime ==
  /\ Counted
  /\ \E aStartTime \in AdjustTimes : AdjustForStartTime(TimeUnit(aStartTime))

DoSetTrimWindow ==
  /\ Counted
  /\ pc = "live"
  /\ \E s \in TrimTimes, e \in TrimTimes :
       /\ s <= e
       /\ SetTrimWindow(Interval(s, e))

DoEnsureAudioBuffer == Counted /\ EnsureAudioBuffer

DoMoveableData == Counted /\ MoveableData

DoVideoConstruct ==
  /\ Counted
  /\ \E aTime \in StartTimes, aDuration \in VideoDurations :
       VideoConstruct(TimeUnit(aTime), TimeUnit(aDuration))

DoUpdateDuration ==
  /\ Counted
  /\ \E aDuration \in VideoDurations : UpdateDuration(TimeUnit(aDuration))

DoUpdateTimestamp ==
  /\ Counted
  /\ \E aTimestamp \in VideoTimestamps : UpdateTimestamp(TimeUnit(aTimestamp))

DoVideoAdjustForStartTime ==
  /\ Counted
  /\ \E aStartTime \in AdjustTimes :
       VideoAdjustForStartTime(TimeUnit(aStartTime))

Next ==
  \/ DoConstruct
  \/ DoSetOriginalStartTime
  \/ DoAdjustForStartTime
  \/ DoSetTrimWindow
  \/ DoEnsureAudioBuffer
  \/ DoMoveableData
  \/ DoVideoConstruct
  \/ DoUpdateDuration
  \/ DoUpdateTimestamp
  \/ DoVideoAdjustForStartTime

Spec == Init /\ [][Next]_vars

---------------------------------------------------------------------------
(* A video frame whose callers pass non-negative values only: a            *)
(* non-negative duration to the constructor, non-negative arguments to     *)
(* UpdateTimestamp, UpdateDuration and AdjustForStartTime.                 *)

NonNegative(S) == {x \in S : x >= 0}

DoVideoConstructNonNegative ==
  /\ Counted
  /\ \E aTime \in StartTimes, aDuration \in NonNegative(VideoDurations) :
       VideoConstruct(TimeUnit(aTime), TimeUnit(aDuration))

DoUpdateDurationNonNegative ==
  /\ Counted
  /\ \E aDuration \in NonNegative(VideoDurations) :
       UpdateDuration(TimeUnit(aDuration))

DoUpdateTimestampNonNegative ==
  /\ Counted
  /\ \E aTimestamp \in NonNegative(VideoTimestamps) :
       UpdateTimestamp(TimeUnit(aTimestamp))

DoVideoAdjustForStartTimeNonNegative ==
  /\ Counted
  /\ \E aStartTime \in NonNegative(AdjustTimes) :
       VideoAdjustForStartTime(TimeUnit(aStartTime))

NextVideo ==
  \/ DoVideoConstructNonNegative
  \/ DoUpdateDurationNonNegative
  \/ DoUpdateTimestampNonNegative
  \/ DoVideoAdjustForStartTimeNonNegative

SpecVideo == Init /\ [][NextVideo]_vars

---------------------------------------------------------------------------
(* Properties of AudioData.                                                *)

Live == pc = "live"
Owned == Live /\ ~mAudioData.null
\* originalDuration in ticks: the frames the constructor counted, while the
\* frame still owns its buffer.
OriginalDurationTicks ==
  ((Len(mAudioData.data) \div mChannels) * TickBase) \div mRate
\* This step is a call of op on a constructed frame.
Calls(op) == Live /\ call'.op = op

\* C1: SetTrimWindow returns false and changes nothing whenever the window
\* starts before originalTime, ends after originalTime + originalDuration, or
\* the subtraction of originalTime from one of its ends overflows.
C1_RejectedTrimChangesNothing ==
  [][(/\ Calls("SetTrimWindow")
      /\ \/ call'.a < mOriginalTime.t
         \/ call'.b > mOriginalTime.t + OriginalDurationTicks
         \/ ~IsValid(TUSub(TimeUnit(call'.a), mOriginalTime))
         \/ ~IsValid(TUSub(TimeUnit(call'.b), mOriginalTime)))
     => (call'.ret = FALSE /\ UNCHANGED <<pc, frame>>)]_vars

\* A window reaching outside the original range was rejected on a frame that
\* owns its buffer and has valid times.
C1_Witness ==
  /\ Owned /\ call.op = "SetTrimWindow" /\ ~call.ret
  /\ IsValid(mOriginalTime) /\ IsValid(mTime)
  /\ call.a >= mOriginalTime.t
  /\ call.b > mOriginalTime.t + OriginalDurationTicks
  /\ mTrimWindow.some /\ mFrames > 0

C3_TrimWindowInsideOriginalRange ==
  (/\ Owned /\ mTrimWindow.some
   /\ IsValid(mOriginalTime) /\ IsValid(mTrimWindow.mStart)
   /\ IsValid(mTrimWindow.mEnd))
  => /\ mOriginalTime.t <= mTrimWindow.mStart.t
     /\ mTrimWindow.mEnd.t <= mOriginalTime.t + OriginalDurationTicks

\* C4: the window exposed by Data() stays inside the owned buffer:
\* dataOffset + frameCount * channels <= bufferLength.
C4_DataInsideBuffer ==
  Live => mDataOffset + mFrames * mChannels <= Len(mAudioData.data)

\* A trimmed window that ends exactly at the end of the buffer.
C4_Witness ==
  /\ Owned /\ mTrimWindow.some /\ mDataOffset > 0 /\ mFrames > 0
  /\ mDataOffset + mFrames * mChannels = Len(mAudioData.data)

\* C5: SetTrimWindow with the frame's full original range, applied to an
\* untrimmed frame or applied again right after it succeeded, returns true
\* and leaves frameCount, dataOffset, timestamp and duration as they were.
C5_FullRangeTrimIdempotent ==
  [][(/\ Calls("SetTrimWindow") /\ ~mAudioData.null
      /\ IsValid(mOriginalTime)
      /\ call'.a = mOriginalTime.t
      /\ call'.b = mOriginalTime.t + OriginalDurationTicks
      /\ (~mTrimWindow.some \/ (call'.again /\ call.ret)))
     => (call'.ret /\ UNCHANGED <<mFrames, mDataOffset, mTime, mDuration>>)]_vars

\* The full-range window was applied a second time in a row to a frame that
\* holds frames.
C5_Witness ==
  /\ Owned /\ call.op = "SetTrimWindow" /\ call.again /\ call.ret
  /\ call.a = mOriginalTime.t
  /\ call.b = mOriginalTime.t + OriginalDurationTicks
  /\ mFrames > 1

\* C6: MoveableData returns exactly the samples at positions
\* [dataOffset, dataOffset + frameCount * channels) of the buffer as it was
\* before the call, in the same order.
C6_MovedDataIsTrimmedRange ==
  [][Calls("MoveableData")
     => call'.buf.data =
          SubSeq(mAudioData.data, mDataOffset + 1,
                 mDataOffset + mFrames * mChannels)]_vars

\* A frame trimmed at both ends was moved out: the returned samples start
\* after the first sample and stop before the last.
C6_Witness ==
  /\ Live /\ call.op = "MoveableData"
  /\ Len(call.buf.data) >= 2
  /\ call.buf.data[1] > 1

\* C7: after MoveableData the frame owns no samples and later uses degrade
\* safely: frameCount and dataOffset are 0, the trim window is absent,
\* Data() is empty, a second MoveableData returns an empty buffer,
\* SetTrimWindow returns false and changes nothing, EnsureAudioBuffer does
\* nothing, and the moved-out buffer is no longer held by the frame.
C7_AfterMoveDegradesSafely ==
  /\ []((Live /\ mAudioData.null)
        => /\ mFrames = 0 /\ mDataOffset = 0 /\ ~mTrimWindow.some
           /\ Data = <<>> /\ mAudioData.data = <<>>)
  /\ [][Calls("MoveableData") => mAudioData' = NullBuffer]_vars
  /\ [][(Calls("MoveableData") /\ mAudioData.null)
        => (call'.buf = NullBuffer /\ UNCHANGED <<pc, frame>>)]_vars
  /\ [][(Calls("SetTrimWindow") /\ mAudioData.null)
        => (~call'.ret /\ UNCHANGED <<pc, frame>>)]_vars
  /\ [][(Calls("EnsureAudioBuffer") /\ mAudioData.null)
        => UNCHANGED <<pc, frame>>]_vars

\* A frame that held a trim window and frames was moved out, and
\* MoveableData was then called again.
C7_Witness ==
  /\ Live /\ mAudioData.null
  /\ call.op = "MoveableData" /\ call.again
  /\ mDuration.t > 0 /\ mTime.t > mOriginalTime.t

\* C8 (as stated): constructing an AudioData with 0 channels or a rate of 0
\* hands an error value back to the caller: no frame, and the process goes on.
C8_ZeroChannelsOrRateReturnsError ==
  (call.op = "Construct" /\ (call.a = 0 \/ call.b = 0))
  => (pc = "none" /\ ~call.ret)

\* C8 (amended): constructing an AudioData with 0 channels or a rate of 0
\* ends the process on a release assertion; no frame is produced and no
\* error value reaches the caller.
C8_ZeroChannelsOrRateAborts ==
  (call.op = "Construct" /\ (call.a = 0 \/ call.b = 0))
  => (pc = "aborted" /\ ~call.ret /\ mAudioData.null /\ mFrames = 0)

\* The constructor was called with a rate of 0 and a positive channel count.
C8_Witness ==
  call.op = "Construct" /\ call.a > 0 /\ call.b = 0 /\ pc = "aborted"

\* C9 (as stated): duration equals frameCount / rate after any sequence of
\* SetTrimWindow, AdjustForStartTime and MoveableData.
C9_DurationMatchesFrames ==
  Live => (IsValid(mDuration) /\ mDuration.t * mRate = mFrames * TickBase)

\* C9 (amended): right after construction frameCount is bufferLength div
\* channels, and duration equals frameCount / rate for as long as the frame
\* owns its buffer; MoveableData sets frameCount to 0 and leaves the
\* duration as it was.
C9_DurationMatchesFramesUntilMoved ==
  /\ [](Owned
        => (IsValid(mDuration) /\ mDuration.t * mRate = mFrames * TickBase))
  /\ []((Live /\ call.op = "Construct")
        => mFrames = Len(mAudioData.data) \div mChannels)
  /\ [][Calls("MoveableData")
        => (mFrames' = 0 /\ mDuration' = mDuration)]_vars

\* A frame was trimmed to fewer frames and then adjusted for the start time.
C9_Witness ==
  /\ Owned /\ mTrimWindow.some /\ call.op = "AdjustForStartTime"
  /\ mFrames > 0 /\ mFrames < Len(mAudioData.data) \div mChannels

\* y is x shifted by -base: the exact difference when it is representable,
\* an invalid time otherwise.
ShiftedBy(x, y, base) ==
  /\ IsValid(y) <=> (IsValid(x) /\ InRange(x.t - base))
  /\ IsValid(y) => y.t = x.t - base

\* C10: AdjustForStartTime(base) shifts the timestamp, the original
\* timestamp and, if present, both ends of the trim window by exactly -base
\* and leaves frameCount, dataOffset, duration, channel count, rate and the
\* sample buffers unchanged.
C10_AdjustShiftsTimesOnly ==
  [][Calls("AdjustForStartTime")
     => /\ ShiftedBy(mTime, mTime', call'.a)
        /\ ShiftedBy(mOriginalTime, mOriginalTime', call'.a)
        /\ mTrimWindow'.some = mTrimWindow.some
        /\ mTrimWindow.some
             => /\ ShiftedBy(mTrimWindow.mStart, mTrimWindow'.mStart, call'.a)
                /\ ShiftedBy(mTrimWindow.mEnd, mTrimWindow'.mEnd, call'.a)
        /\ UNCHANGED <<pc, mFrames, mDataOffset, mDuration, mChannels, mRate,
                       mAudioData, mAudioBuffer>>]_vars

\* A trimmed frame was adjusted to a negative start time, all times valid.
C10_Witness ==
  /\ Owned /\ call.op = "AdjustForStartTime" /\ call.ret
  /\ mTrimWindow.some /\ mFrames > 0
  /\ IsValid(mTrimWindow.mStart) /\ IsValid(mTrimWindow.mEnd)
  /\ IsNegative(mTime) /\ mTime.t > mOriginalTime.t

\* C12: the planar conversion of a frame with F frames and C channels makes
\* a buffer of F*C samples whose index j*F + i holds interleaved sample
\* i*C + j of the trimmed data, the range starting at mDataOffset, for all
\* 0 <= i < F and 0 <= j < C.
C12_PlanarIsDeinterleavedData ==
  [][(Calls("EnsureAudioBuffer") /\ mAudioBuffer.null /\ ~mAudioData.null)
     => /\ ~mAudioBuffer'.null
        /\ Len(mAudioBuffer'.data) = mFrames * mChannels
        /\ \A i \in 0..(mFrames - 1), j \in 0..(mChannels - 1) :
             mAudioBuffer'.data[j * mFrames + i + 1] =
               mAudioData.data[mDataOffset + i * mChannels + j + 1]]_vars

\* The planar buffer of a frame with two channels and two frames was made:
\* its second sample is the first channel's second sample.
C12_Witness ==
  /\ Owned /\ call.op = "EnsureAudioBuffer" /\ ~mAudioBuffer.null
  /\ mChannels = 2 /\ mFrames = 2
  /\ mAudioBuffer.data[2] = mAudioData.data[mDataOffset + 3]

---------------------------------------------------------------------------
(* Properties of the start-time adjustment and of VideoData's times.       *)

Video == pc = "video"
\* This step is a call of op on a constructed video frame.
VCalls(op) == Video /\ call'.op = op
\* x - base is representable: x is valid and the difference is in range.
Subtractable(x, base) == IsValid(x) /\ InRange(x.t - base)

\* C11: AdjustForStartTime reports failure exactly when the adjusted
\* timestamp (for audio also the adjusted original timestamp) is invalid
\* after the subtraction; a negative result is a success, and after a call
\* that reported success the frame holds no invalid timestamp.
C11_AdjustFailsExactlyWhenInvalid ==
  /\ [][Calls("AdjustForStartTime")
        => /\ call'.ret <=> (/\ Subtractable(mTime, call'.a)
                             /\ Subtractable(mOriginalTime, call'.a))
           /\ call'.ret <=> (IsValid(mTime') /\ IsValid(mOriginalTime'))]_vars
  /\ [][VCalls("VideoAdjustForStartTime")
        => /\ call'.ret <=> Subtractable(mTime, call'.a)
           /\ call'.ret <=> IsValid(mTime')]_vars

\* An adjustment of a trimmed audio frame reported failure although the
\* adjusted timestamp is valid: the adjusted original timestamp is not.
C11_Witness ==
  /\ Owned /\ call.op = "AdjustForStartTime" /\ ~call.ret
  /\ IsValid(mTime) /\ ~IsValid(mOriginalTime)

\* C20 (as stated): UpdateTimestamp and UpdateDuration, called with a
\* non-negative value on a video frame with non-negative times and giving a
\* non-negative result, each leave the end time mTime + mDuration of the
\* frame as it was.
C20_UpdatesPreserveEndTime ==
  [][(/\ VCalls("UpdateTimestamp") \/ VCalls("UpdateDuration")
      /\ Video'
      /\ ~IsNegative(mTime) /\ ~IsNegative(mDuration) /\ IsValid(GetEndTime)
      /\ call'.a >= 0 /\ ~IsNegative(mTime') /\ ~IsNegative(mDuration'))
     => GetEndTime' = GetEndTime]_vars

\* C20 (amended): UpdateTimestamp(ts) sets the timestamp to ts and the
\* duration to the old end time minus ts, so the end time is kept whenever
\* it and the difference are representable; UpdateDuration(d) sets the
\* duration to d and leaves the timestamp alone, so the end time becomes
\* timestamp + d.  A negative argument or result is caught by debug-only
\* assertions: the call then either ends the process or stores the value.
C20_UpdateTimestampPreservesEndTime ==
  /\ [][(VCalls("UpdateTimestamp") /\ Video')
        => /\ IsValid(mTime') /\ mTime'.t = call'.a
           /\ Subtractable(GetEndTime, call'.a)
                => (IsValid(mDuration') /\ GetEndTime' = GetEndTime)]_vars
  /\ [][(VCalls("UpdateDuration") /\ Video')
        => /\ mTime' = mTime
           /\ IsValid(mDuration') /\ mDuration'.t = call'.a]_vars
  /\ [][((VCalls("UpdateTimestamp") \/ VCalls("UpdateDuration")) /\ ~Video')
        => /\ pc' = "aborted" /\ UNCHANGED frame
           /\ \/ call'.a < 0
              \/ call'.op = "UpdateTimestamp" /\ GetEndTime.t < call'.a]_vars

\* UpdateTimestamp moved the timestamp of a video frame forward and
\* shortened its duration to a positive rest.
C20_Witness ==
  /\ Video /\ call.op = "UpdateTimestamp"
  /\ IsValid(mTime) /\ mTime.t > 0 /\ IsValid(mDuration) /\ mDuration.t > 0

---------------------------------------------------------------------------
(* Properties of the validation in VideoData::CreateAndCopyData.           *)

\* The pixel budget of a plane.
PixelBudget == MAX_VIDEO_WIDTH * MAX_VIDEO_HEIGHT
\* The plane ValidatePlane was called on.
ValidatedPlane == vcall.planes[1]
\* This state follows a call of one of the two overloads.
CreateCalled ==
  vcall.op = "CreateAndCopyData" \/ vcall.op = "CreateAndCopyDataAlpha"
Y == vcall.planes[1]
Cb == vcall.planes[2]
Cr == vcall.planes[3]

\* C13 (as stated): ValidatePlane returns true for every plane with
\* stride >= width and width * height below the pixel budget, and false
\* for every plane violating one of the two.
C13_ValidPlaneIffStrideAndBudget ==
  vcall.op = "ValidatePlane"
  => (vcall.valid <=> (/\ ValidatedPlane.mStride >= ValidatedPlane.mWidth
                       /\ ValidatedPlane.mWidth * ValidatedPlane.mHeight
                            < PixelBudget))

\* C13 (amended): ValidatePlane returns true exactly for the planes with
\* width and height at most the maximal dimension, width * height below the
\* pixel budget, a stride above 0 and stride >= width.
C13_ValidPlaneIffAllConditions ==
  vcall.op = "ValidatePlane"
  => (vcall.valid <=> (/\ ValidatedPlane.mStride >= ValidatedPlane.mWidth
                       /\ ValidatedPlane.mStride >= 1
                       /\ ValidatedPlane.mWidth * ValidatedPlane.mHeight
                            < PixelBudget
                       /\ ValidatedPlane.mWidth <= MAX_DIMENSION
                       /\ ValidatedPlane.mHeight <= MAX_DIMENSION))

\* ValidatePlane accepted a plane of the maximal width with a wider stride.
C13_Witness ==
  /\ vcall.op = "ValidatePlane" /\ vcall.valid
  /\ ValidatedPlane.mWidth = MAX_DIMENSION
  /\ ValidatedPlane.mStride > ValidatedPlane.mWidth

\* The reasons of the four checks, and the check that fails first.
ChromaDiffers == Cb.mWidth # Cr.mWidth \/ Cb.mHeight # Cr.mHeight
EmptyPicture == vcall.picture.width <= 0 \/ vcall.picture.height <= 0
BadPlane == \E i \in 1..3 : ~ValidatePlane(vcall.planes[i])
OverflowingPicture ==
  \/ vcall.picture.x < 0 \/ vcall.picture.y < 0
  \/ vcall.picture.x + vcall.picture.width > Uint32Max
  \/ vcall.picture.y + vcall.picture.height > Uint32Max
  \/ vcall.picture.x + vcall.picture.width > Y.mStride
  \/ vcall.picture.y + vcall.picture.height > Y.mHeight
FirstFailure ==
  IF ChromaDiffers THEN "Chroma planes with different sizes"
  ELSE IF EmptyPicture THEN "Empty picture rect"
  ELSE IF BadPlane THEN "Invalid plane size"
  ELSE IF OverflowingPicture THEN "Overflowing picture rect"
  ELSE ""

PictureOutsidePlane ==
  \/ vcall.picture.x < 0 \/ vcall.picture.y < 0
  \/ vcall.picture.x + vcall.picture.width > Y.mStride
  \/ vcall.picture.y + vcall.picture.height > Y.mHeight

\* C15 (as stated): CreateAndCopyData with a picture that does not fit
\* inside the Y plane fails whatever its other arguments are, and has
\* allocated no image and copied no plane data.
C15_PictureOutsidePlaneAlwaysFails ==
  (CreateCalled /\ PictureOutsidePlane)
  => (vcall.ret # "frame" /\ ~vcall.allocated /\ ~vcall.copied)

\* C15 (amended): CreateAndCopyData given an image container and a picture
\* that does not fit inside the Y plane fails, having allocated no image and
\* copied no plane data; without an image container it validates nothing
\* and returns a frame with no image.  A picture that is accepted reaches
\* the image as it was passed.
C15_PictureOutsidePlaneFailsWithContainer ==
  /\ (CreateCalled /\ vcall.container /\ PictureOutsidePlane)
     => (vcall.ret # "frame" /\ ~vcall.allocated /\ ~vcall.copied)
  /\ (CreateCalled /\ ~vcall.container)
     => (vcall.ret = "frame" /\ vcall.image = "none"
         /\ ~vcall.allocated /\ ~vcall.copied)
  /\ (CreateCalled /\ vcall.ret = "frame" /\ vcall.image # "none")
     => (vcall.rect = vcall.picture /\ ~PictureOutsidePlane)

\* The overload with an alpha plane returned null for a picture that
\* starts above the Y plane.
C15_Witness ==
  /\ vcall.op = "CreateAndCopyDataAlpha" /\ vcall.container
  /\ vcall.ret = "null" /\ vcall.picture.y < 0
  /\ vcall.result.message = "Overflowing picture rect"

---------------------------------------------------------------------------
(* Properties of VideoData::QuantizableBuffer.                             *)

\* This step is a call of To8BitPerChannel that returned.
Converts == qpc = "live" /\ qpc' = "live"
Succeeded(c) == c.result.code = "NS_OK"
\* The bytes a plane takes: its stride times its height.
PlaneBytes(aPlane) == aPlane.mStride * aPlane.mHeight

\* C16: a successful To8BitPerChannel on a 10- or 12-bit buffer sets the
\* colour depth to 8 bits, halves the Y and chroma strides, and repoints the
\* planes into one buffer of yLen + 2*uvLen bytes acquired from the recycle
\* bin, at offsets 0, yLen and yLen + uvLen, so that the three planes are
\* disjoint and inside that buffer; widths and heights are unchanged.
C16_ConvertedPlanesLayout ==
  [][(Converts /\ Succeeded(qcall') /\ mColorDepth \in {10, 12})
     => LET newYStride == mPlanes[1].mStride \div 2
            newUVStride == mPlanes[2].mStride \div 2
            yLen == newYStride * mPlanes[1].mHeight
            uvLen == newUVStride * mPlanes[2].mHeight
            b == qcall'.acquired
        IN /\ mColorDepth' = 8
           /\ mPlanes'[1].mStride = newYStride
           /\ mPlanes'[2].mStride = newUVStride
           /\ mPlanes'[3].mStride = mPlanes[3].mStride \div 2
           /\ b \in (1..Len(buffers')) \ (1..Len(buffers))
           /\ b = m8bpcPlanes'
           /\ buffers'[b].bin = qcall'.bin /\ buffers'[b].state = "held"
           /\ buffers'[b].length = yLen + 2 * uvLen
           /\ mPlanes'[1].mData = Pointer(b, 0)
           /\ mPlanes'[2].mData = Pointer(b, yLen)
           /\ mPlanes'[3].mData = Pointer(b, yLen + uvLen)
           /\ PlaneBytes(mPlanes'[1]) <= mPlanes'[2].mData.off
           /\ mPlanes'[2].mData.off + PlaneBytes(mPlanes'[2])
                <= mPlanes'[3].mData.off
           /\ mPlanes'[3].mData.off + PlaneBytes(mPlanes'[3])
                <= buffers'[b].length
           /\ \A i \in 1..3 : /\ mPlanes'[i].mWidth = mPlanes[i].mWidth
                               /\ mPlanes'[i].mHeight = mPlanes[i].mHeight]_vars

\* A 12-bit buffer with planes of two rows was converted: the planes lie
\* one after the other in the buffer of the bin.
C16_Witness ==
  /\ qpc = "live" /\ Succeeded(qcall) /\ qcall.depth = 12
  /\ qcall.op = "To8BitPerChannel"
  /\ mChromaSubsampling = "HALF_WIDTH"
  /\ mPlanes[2].mHeight = 2 /\ mPlanes[2].mStride = 2
  /\ mPlanes[3].mData.off > mPlanes[2].mData.off
  /\ mPlanes[2].mData.off > 0

\* The combinations To8BitPerChannel has a conversion routine for.
Supported ==
  /\ mColorDepth \in {10, 12}
  /\ mChromaSubsampling \in {"HALF_WIDTH_AND_HEIGHT", "HALF_WIDTH", "FULL"}

\* C17: To8BitPerChannel succeeds only for a colour depth of 10 or 12 bits
\* with 4:2:0, 4:2:2 or 4:4:4 subsampling; for any other combination it
\* returns the error of an unsupported format (once its buffer is
\* allocated); and a failing return leaves the colour depth and the planes'
\* pointers and strides as they were.
C17_OnlySupportedFormatsConvert ==
  [][Converts
     => /\ Succeeded(qcall') => Supported
        /\ (~Supported /\ qcall'.acquired # 0)
             => qcall'.result =
                  MediaResult("NS_ERROR_DOM_MEDIA_DECODE_ERR",
                              "Source format not supported")
        /\ ~Succeeded(qcall') => UNCHANGED <<mColorDepth, mPlanes>>]_vars

\* C18: To8BitPerChannel takes effect at most once: a call on a buffer it
\* has converted acquires no buffer and leaves the colour depth, the planes
\* and the allocated length unchanged, and a colour depth of 8 bits never
\* goes back up.
C18_SecondConversionIsNoOp ==
  /\ [][(Converts /\ mRecycleBin # 0 /\ Succeeded(qcall)
         /\ qcall.depth \in {10, 12})
        => /\ qcall'.acquired = 0 /\ buffers' = buffers
           /\ UNCHANGED <<mColorDepth, mPlanes, mAllocatedLength>>]_vars
  /\ [][(qpc = "live" /\ mColorDepth = 8) => mColorDepth' = 8]_vars

\* C19: every buffer acquired from a recycle bin stays with the
\* QuantizableBuffer until that is destroyed, and is then given back to the
\* bin it came from, with the length it was acquired with; it is never
\* freed or given back before.
C19_AcquiredBuffersAreRecycledOnce ==
  \A id \in 1..Len(buffers) :
    /\ buffers[id].state # "freed"
    /\ buffers[id].state = "held" => (qpc # "destroyed" /\ m8bpcPlanes = id)
    /\ buffers[id].state = "recycled"
         => /\ qpc = "destroyed"
            /\ buffers[id].to = buffers[id].bin
            /\ buffers[id].size = buffers[id].length
    /\ qpc = "destroyed" => buffers[id].state = "recycled"

---------------------------------------------------------------------------
(* Properties of a video frame whose callers pass non-negative values.     *)

\* C21: in every state of a video frame constructed with a non-negative
\* duration and then updated by UpdateTimestamp, UpdateDuration and
\* AdjustForStartTime with non-negative arguments, the duration is not
\* negative (checked under SpecVideo, whose callers pass no other value).
C21_DurationNeverNegative ==
  Video => ~IsNegative(mDuration)

---------------------------------------------------------------------------
(* Properties of MediaRawData::Clone.                                      *)

\* This step is a call of Clone that returned a new sample.
Cloned == rcall'.op = "Clone" /\ rcall'.ret # 0
\* This step is a call on the writer of a sample.
Writes == rcall'.op \notin {"none", "MediaRawData", "Clone"}
\* The new sample carries the fields of the source and copies of both of
\* its payloads, and the source is as it was.
ClonedFieldsAndPayloads ==
  LET from == samples[rcall'.target]
      s == samples'[rcall'.ret]
  IN /\ rcall'.ret = Len(samples) + 1
     /\ s.mTimecode = from.mTimecode /\ s.mTime = from.mTime
     /\ s.mDuration = from.mDuration /\ s.mOffset = from.mOffset
     /\ s.mKeyframe = from.mKeyframe /\ s.mEOS = from.mEOS
     /\ Payload(heap', s) = Payload(heap, from)
     /\ AlphaPayload(heap', s) = AlphaPayload(heap, from)
     /\ s.mTrackInfo = from.mTrackInfo
     /\ samples'[rcall'.target] = from
     /\ Payload(heap', from) = Payload(heap, from)
     /\ AlphaPayload(heap', from) = AlphaPayload(heap, from)
\* A call on the writer of one sample leaves the payloads of every other
\* sample as they were.
WritesStayInTheirSample ==
  Writes => \A y \in 1..Len(samples) :
              y # rcall'.target
                => /\ Payload(heap', samples'[y]) = Payload(heap, samples[y])
                   /\ AlphaPayload(heap', samples'[y]) =
                        AlphaPayload(heap, samples[y])

\* C22 (as stated): a successful Clone gives a sample with the timecode,
\* timestamp, duration, offset, keyframe and end-of-stream flags of the
\* source and byte-equal payloads in storage of its own (a later write through
\* a writer changes the payloads of its own sample only), which shares the
\* track info and the crypto data objects of the source by reference; the
\* source is left unchanged.
C22_CloneSharesTrackInfoAndCrypto ==
  [][/\ Cloned => /\ ClonedFieldsAndPayloads
                  /\ samples'[rcall'.ret].mCrypto =
                       samples[rcall'.target].mCrypto
     /\ WritesStayInTheirSample]_vars

\* C22 (amended): as above, but the clone shares the track info only; its
\* crypto data are a copy, equal to the source's, in the clone's own
\* mCryptoInternal, and a later write through a writer's mCrypto changes the
\* crypto data of the writer's own sample only.
C22_CloneCopiesPayloadsAndCrypto ==
  [][/\ Cloned => /\ ClonedFieldsAndPayloads
                  /\ samples'[rcall'.ret].mCryptoInternal =
                       samples[rcall'.target].mCryptoInternal
                  /\ samples'[rcall'.ret].mCrypto = rcall'.ret
     /\ WritesStayInTheirSample
     /\ Writes => \A y \in 1..Len(samples) :
                    y # rcall'.target
                      => samples'[y].mCryptoInternal =
                           samples[y].mCryptoInternal]_vars

\* A byte of the source's primary payload was overwritten through a writer
\* after a clone with both payloads was made, and the clone still holds the
\* bytes it copied, and its crypto data differ from the source's by now.
C22_Witness ==
  /\ Len(samples) = 2
  /\ Payload(heap, samples[2]) = <<1, 2>>
  /\ AlphaPayload(heap, samples[2]) = <<5>>
  /\ Payload(heap, samples[1]) = <<9, 2>>
  /\ samples[1].mCryptoInternal # samples[2].mCryptoInternal
  /\ rcall.op = "Data" /\ rcall.target = 1

\* C23: Clone is all-or-nothing.  When the copy of the primary or of the
\* alpha payload fails the caller gets null, no sample with part of the
\* payloads exists and the source is unchanged; a sample that is returned
\* holds all the bytes of both payloads.
C23_CloneIsAllOrNothing ==
  [][rcall'.op = "Clone"
       => LET from == samples[rcall'.target]
          IN /\ rcall'.copied < 2 => rcall'.ret = 0
             /\ rcall'.ret = 0 => UNCHANGED <<samples, heap>>
             /\ rcall'.ret # 0
                  => /\ samples' = Append(samples, samples'[rcall'.ret])
                     /\ Payload(heap', samples'[rcall'.ret]) =
                          Payload(heap, from)
                     /\ AlphaPayload(heap', samples'[rcall'.ret]) =
                          AlphaPayload(heap, from)
                     /\ Payload(heap', from) = Payload(heap, from)
                     /\ AlphaPayload(heap', from) =
                          AlphaPayload(heap, from)]_vars

\* Clone returned null after it had copied the primary payload: the copy of
\* the alpha payload failed, and the source is the only sample there is.
C23_Witness ==
  /\ rcall.op = "Clone" /\ rcall.ret = 0 /\ rcall.copied = 1
  /\ Len(samples) = 1
  /\ Payload(heap, samples[1]) = <<1, 2>>
  /\ AlphaPayload(heap, samples[1]) = <<5>>

---------------------------------------------------------------------------
(* Properties of the list manager's update-check timers.                   *)

\* The tables registered with updateUrl that have updates enabled.
EnabledTables(updateUrl) ==
  {t \in Tables : tablesData[t] = updateUrl /\ needsUpdate[updateUrl][t] = "true"}

\* C24: an update-check timer entry exists for an update URL if and only if
\* at least one table with that URL has updates enabled.
C24_TimerEntryIffUpdatesEnabled ==
  \A u \in Urls : updateCheckers[u] <=> EnabledTables(u) # {}

\* C25: on update success the next check is scheduled with a delay between
\* 5 minutes and 24 hours: a wait above 24 hours gives 24 hours, a wait below
\* 5 minutes or an absent one gives the 30-minute default, any other wait is
\* used as given.
C25_UpdateSuccessDelayIsSane ==
  [][lcall'.op = "updateSuccess"
       => LET seconds == ParseInt(lcall'.wait)
              delay == lcall'.delay
          IN /\ updateCheckers'[lcall'.url]
             /\ 5 * 60 * 1000 <= delay /\ delay <= 24 * 60 * 60 * 1000
             /\ seconds > 24 * 60 * 60 => delay = 24 * 60 * 60 * 1000
             /\ seconds < 5 * 60 => delay = 30 * 60 * 1000
             /\ (5 * 60 <= seconds /\ seconds <= 24 * 60 * 60)
                  => delay = seconds * 1000]_vars

\* The server asked for a wait of a second more than 24 hours and the check
\* was scheduled in 24 hours.
C25_Witness ==
  /\ lcall.op = "updateSuccess" /\ lcall.wait = <<8, 6, 4, 0, 1>>
  /\ lcall.delay = maxDelayMs /\ updateCheckers[lcall.url]

\* C26: right after a disableUpdate or unregisterTable that leaves the
\* table's update URL with no table that has updates enabled, no update-check
\* timer of that URL is armed.
C26_NoTimerAfterLastTableDisabled ==
  [][\A u \in Urls :
       (/\ lcall'.op \in {"disableUpdate", "unregisterTable"}
        /\ lcall'.url = u
        /\ EnabledTables(u)' = {})
       => Armed(u)' = 0]_vars

\* C27: at most one update-check timer is armed per update URL: no timer is
\* replaced in its entry while it is still armed.
C27_OneArmedTimerPerUrl ==
  \A u \in Urls : orphanTimers[u] = 0 /\ Armed(u) <= 1

---------------------------------------------------------------------------
(* Repeated and later trims of AudioData, and its planar copy.             *)

\* C28: SetTrimWindow is idempotent for every window it accepts: when a call
\* returned true, the same call made right after it returns true too and
\* leaves mTime, mDuration, mFrames, mDataOffset and mTrimWindow as the
\* first call set them, whether or not the window's ends are multiples of
\* the frame period.
C28_AcceptedTrimIdempotent ==
  [][(Calls("SetTrimWindow") /\ call'.again /\ call.ret)
     => (/\ call'.ret
         /\ UNCHANGED <<mTime, mDuration, mFrames, mDataOffset,
                        mTrimWindow>>)]_vars

\* C29: earlier trims do not shrink the range SetTrimWindow accepts: on a
\* trimmed frame a window inside [originalTime, originalTime +
\* originalDuration] is accepted.
C29_OriginalRangeStaysAccepted ==
  [][(/\ Calls("SetTrimWindow")
      /\ Owned /\ mTrimWindow.some /\ IsValid(mOriginalTime)
      /\ mOriginalTime.t <= call'.a
      /\ call'.b <= mOriginalTime.t + OriginalDurationTicks)
     => call'.ret]_vars

\* C30: a planar copy that exists is the deinterleaving of the current
\* Data(), whatever calls of EnsureAudioBuffer and SetTrimWindow were made.
C30_PlanarCopyFollowsData ==
  (Owned /\ ~mAudioBuffer.null)
    => mAudioBuffer = Buffer(Planar(Data, mFrames, mChannels))

====
